---- MODULE Spec2Model ----
(***************************************************************************)
(* A model of neahttadigisanit's morphology engine                         *)
(* (neahtta/morphology/morphology.py) and paradigm rule engine             *)
(* (neahtta/paradigms.py).                                                 *)
(*                                                                         *)
(* A Python str is a sequence of one-character strings, so that find,      *)
(* count, split, join, replace and slicing are computed on characters, as  *)
(* Python computes them.  A Python list is a sequence.                     *)
(***************************************************************************)
EXTENDS Integers, Sequences, FiniteSets, TLC

VARIABLES
    pc,           \* which operation has run on the inputs ("start": none yet)
    form,         \* the surface form passed to lemmatize / place_exact_lemmas_first
    analyses_in,  \* the analyses list as passed by the caller (kept for comparison)
    analyses,     \* the analyses list object (reordered in place by the engine)
    lookups,      \* the parsed blocks returned by tool.lookup: (surface, analyses, weights)
    tagsets,      \* Morphology.tagsets: tagset name -> sequence of TagPart
    options,      \* tool.options: tagsep, inverse_tagsep, tags_in_lexicon, ...
    flags,        \* lemmatize's keyword arguments (split_compounds, ...)
    tag,          \* a Tag object (its tag_string) / the parts handed to formatTag
    rules,        \* ParadigmConfig.paradigm_rules[language]
    node,         \* the lexicon entry node handed to the paradigm engine
    ret,          \* what the operation returned (or the exception it raised)
    proc,         \* the subprocesses spawned by XFST._exec, one per call
    clock,        \* seconds elapsed inside the current communicate() call
    registry,     \* generation_overrides.postgeneration_processors
    files,        \* the files of the paradigm directory: path, kind, content, mtime
    tables,       \* ParadigmConfig.paradigm_rules and .paradigm_layout_rules
    threads       \* the threads of the service, each inside or outside a reload

vars == <<pc, form, analyses_in, analyses, lookups, tagsets, options, flags, tag,
          rules, node, ret, proc, clock, registry, files, tables, threads>>

\* the variables of the paradigm engine and of the analyzer subprocesses
paradigmVars == <<rules, node>>
execVars == <<proc, clock>>

\* the processor registry and the paradigm configuration of the service
serviceVars == <<registry, files, tables, threads>>

\* GenerationOverrides.__init__: the global chain holds word_generation_context
InitialRegistry == [all |-> <<"word_generation_context">>]

\* no paradigm directory is configured
NoService ==
    /\ registry = InitialRegistry
    /\ files = <<>>
    /\ tables = <<>>
    /\ threads = <<>>

(***************************************************************************)
(* Bounds of the model.                                                    *)
(***************************************************************************)
MaxAnalyses == 3

\* Python's None, where a str is expected: no str equals it, since the
\* elements of a str are single characters
PyNone == <<"None">>

\* a returned value, or the exception that left the call
Returned(v) == [raised |-> FALSE, val |-> v]
Raised(e) == [raised |-> TRUE, exc |-> e]

(***************************************************************************)
(* Python str and list primitives.                                         *)
(***************************************************************************)
Min2(a, b) == IF a < b THEN a ELSE b
Max2(a, b) == IF a > b THEN a ELSE b

\* sub occurs in s at the 1-based position i
OccursAt(s, sub, i) ==
    /\ i >= 1
    /\ i + Len(sub) - 1 <= Len(s)
    /\ SubSeq(s, i, i + Len(sub) - 1) = sub

\* str.find(sub): the 0-based index of the first occurrence, -1 when there is none
Find(s, sub) ==
    LET hits == {i \in 1..(Len(s) + 1) : OccursAt(s, sub, i)}
    IN  IF hits = {} THEN -1
        ELSE (CHOOSE i \in hits : \A j \in hits : i <= j) - 1

\* sub in s
Contains(s, sub) == Find(s, sub) >= 0

\* s[i:j] with Python's treatment of negative and out-of-range indexes
PyIndex(n, i) == IF i < 0 THEN Max2(n + i, 0) ELSE Min2(i, n)
Slice(s, i, j) == SubSeq(s, PyIndex(Len(s), i) + 1, PyIndex(Len(s), j))

\* s[i:]
SliceFrom(s, i) == SubSeq(s, PyIndex(Len(s), i) + 1, Len(s))

\* str.startswith(prefix)
StartsWith(s, prefix) == OccursAt(s, prefix, 1)

\* str.count(sub): the number of non-overlapping occurrences, left to right
RECURSIVE Count(_, _)
Count(s, sub) ==
    LET i == Find(s, sub)
    IN  IF i < 0 THEN 0 ELSE 1 + Count(SliceFrom(s, i + Len(sub)), sub)

\* str.split(sep), sep non-empty
RECURSIVE Split(_, _)
Split(s, sep) ==
    LET i == Find(s, sep)
    IN  IF i < 0 THEN <<s>>
        ELSE <<Slice(s, 0, i)>> \o Split(SliceFrom(s, i + Len(sep)), sep)

\* sep.join(parts)
RECURSIVE Join(_, _)
Join(sep, parts) ==
    IF Len(parts) = 0 THEN <<>>
    ELSE IF Len(parts) = 1 THEN parts[1]
    ELSE parts[1] \o sep \o Join(sep, Tail(parts))

\* str.replace(old, new), old non-empty
RECURSIVE Replace(_, _, _)
Replace(s, old, new) ==
    LET i == Find(s, old)
    IN  IF i < 0 THEN s
        ELSE Slice(s, 0, i) \o new \o Replace(SliceFrom(s, i + Len(old)), old, new)

\* x in list
InList(x, lst) == \E i \in 1..Len(lst) : lst[i] = x

\* list.index(x): 1-based position of the first element equal to x
IndexOf(lst, x) == CHOOSE i \in 1..Len(lst) : lst[i] = x /\ \A j \in 1..(i - 1) : lst[j] # x

\* min(list), max(list) of a non-empty list of numbers
MinOf(lst) == CHOOSE m \in {lst[i] : i \in 1..Len(lst)} : \A i \in 1..Len(lst) : m <= lst[i]
MaxOf(lst) == CHOOSE m \in {lst[i] : i \in 1..Len(lst)} : \A i \in 1..Len(lst) : m >= lst[i]

\* all sequences over S of length lo..hi
SeqsOf(S, lo, hi) == UNION {[1..n -> S] : n \in lo..hi}

(***************************************************************************)
(* Characters and markers.                                                 *)
(***************************************************************************)
Plus == <<"+">>
sDer == <<"D", "e", "r">>
sErrOrth == <<"E", "r", "r", "/", "O", "r", "t", "h">>
sQuestion == <<"?">>
sActio == <<"A", "c", "t", "i", "o">>

(***************************************************************************)
(* Morphology.place_exact_lemmas_first                                     *)
(***************************************************************************)

\* neahtta.utils.partition.partition_in_place_stable(lst, pred), with
\* sat[i] = pred(lst[i]): the elements satisfying pred first, both groups in
\* input order; returns the number of elements satisfying pred.
Picked(lst, sat, want) ==
    LET F[i \in 0..Len(lst)] ==
            IF i = 0 THEN <<>>
            ELSE IF sat[i] = want THEN Append(F[i - 1], lst[i]) ELSE F[i - 1]
    IN  F[Len(lst)]

PartitionInPlaceStable(lst, sat) ==
    [lst |-> Picked(lst, sat, TRUE) \o Picked(lst, sat, FALSE),
     n |-> Len(Picked(lst, sat, TRUE))]

\* a plausible slip: the lemma is compared as a prefix of the analysis
lemma_eq_form_prefix(f, analysis) == StartsWith(analysis, f)

\* lemma_eq_form: analysis[0 : analysis.find("+")] == form
lemma_eq_form(f, analysis) == Slice(analysis, 0, Find(analysis, Plus)) = f

place_exact_lemmas_first(f, lst) ==
    PartitionInPlaceStable(lst, [i \in 1..Len(lst) |-> lemma_eq_form(f, lst[i])])

\* inputs of place_exact_lemmas_first
ExactForms == {<<"f", "o">>, <<"f", "o", "o">>}
ExactVocab ==
    { <<"f", "o", "o", "+", "X">>,
      <<"b", "a", "r", "+", "Y">>,
      <<"f", "o", "o", "+", "Z">>,
      <<"f", "o", "+", "X">>,
      <<"f", "o", "o">> }

Idle ==
    /\ lookups = <<>>
    /\ tagsets = <<>>
    /\ options = <<>>
    /\ flags = <<>>
    /\ tag = <<>>
    /\ rules = <<>>
    /\ node = PyNone
    /\ proc = <<>>
    /\ clock = 0
    /\ NoService

InitExact ==
    /\ pc = "start"
    /\ form \in ExactForms
    /\ analyses_in \in SeqsOf(ExactVocab, 0, MaxAnalyses)
    /\ analyses = analyses_in
    /\ ret = Returned(PyNone)
    /\ Idle

PlaceExactLemmasFirst ==
    /\ pc = "start"
    /\ LET r == place_exact_lemmas_first(form, analyses)
       IN  /\ analyses' = r.lst
           /\ ret' = Returned(r.n)
    /\ pc' = "place_exact_lemmas_first"
    /\ UNCHANGED <<form, analyses_in, lookups, tagsets, options, flags, tag,
                   paradigmVars, serviceVars, execVars>>

NextExact == PlaceExactLemmasFirst

SpecExact == InitExact /\ [][NextExact]_vars

\* the text of a before its first separator equals f (a contains the separator)
ExactLemma(f, a) ==
    \E k \in 1..Len(a) :
        /\ a[k] = "+"
        /\ \A j \in 1..(k - 1) : a[j] # "+"
        /\ SubSeq(a, 1, k - 1) = f

AllHaveSeparator(lst) == \A i \in 1..Len(lst) : \E k \in 1..Len(lst[i]) : lst[i][k] = "+"

Bijections(n) == {p \in [1..n -> 1..n] : \A i, j \in 1..n : p[i] = p[j] => i = j}

\* C1: place_exact_lemmas_first is a stable partition of analyses that all
\* contain the separator: exact-lemma analyses first, input order kept inside
\* both groups, nothing added or lost, and the returned number is the number
\* of exact-lemma analyses.
C1_StablePartition ==
    (pc = "place_exact_lemmas_first" /\ AllHaveSeparator(analyses_in)) =>
        /\ Len(analyses) = Len(analyses_in)
        /\ \E p \in Bijections(Len(analyses)) :
              /\ \A i \in 1..Len(analyses) : analyses[i] = analyses_in[p[i]]
              /\ \A i, j \in 1..Len(analyses) :
                    (i < j /\ (ExactLemma(form, analyses[i]) <=> ExactLemma(form, analyses[j])))
                        => p[i] < p[j]
        /\ \A i, j \in 1..Len(analyses) :
              (i < j /\ ExactLemma(form, analyses[j])) => ExactLemma(form, analyses[i])
        /\ ret = Returned(Cardinality({i \in 1..Len(analyses_in) : ExactLemma(form, analyses_in[i])}))

\* the spec's example: ["foo+X", "bar+Y", "foo+Z"] with form "foo"
C1_Witness ==
    /\ pc = "place_exact_lemmas_first"
    /\ form = <<"f", "o", "o">>
    /\ analyses_in = << <<"f", "o", "o", "+", "X">>, <<"b", "a", "r", "+", "Y">>,
                        <<"f", "o", "o", "+", "Z">> >>
    /\ analyses = << <<"f", "o", "o", "+", "X">>, <<"f", "o", "o", "+", "Z">>,
                     <<"b", "a", "r", "+", "Y">> >>
    /\ ret = Returned(2)

(***************************************************************************)
(* Morphology.rearrange_on_count                                           *)
(***************************************************************************)

\* [s.count(sub) for s in lst]
CountEach(lst, sub) == [i \in 1..Len(lst) |-> Count(lst[i], sub)]

\* lst without its element at position i
RemoveAt(lst, i) == SubSeq(lst, 1, i - 1) \o SubSeq(lst, i + 1, Len(lst))

\* heapq.nsmallest(2, lst)[-1] of a non-empty list: the second smallest
\* element (duplicates counted), the only element when there is one
NSmallest2Last(lst) ==
    IF Len(lst) = 1 THEN lst[1]
    ELSE MinOf(RemoveAt(lst, IndexOf(lst, MinOf(lst))))

\* a plausible slip: the 'no Err/Orth and at most one Der' rule is tried
\* before the 'one line without Der' rule
rearrange_on_count_max1_first(lst) ==
    IF Len(lst) = 0 THEN Raised("ValueError")
    ELSE
    LET errorth_count == CountEach(lst, sErrOrth)
        any_without_errorth == MinOf(errorth_count) = 0
        any_with_errorth == MaxOf(errorth_count) > 0
        max_1_errorth == MaxOf(errorth_count) = 1
        no_errorth == MaxOf(errorth_count) = 0
        der_count == CountEach(lst, sDer)
        any_without_der == MinOf(der_count) = 0
        most_1_without_der == NSmallest2Last(der_count) > 0
        all_has_der == MinOf(der_count) > 0
    IN  IF ~(no_errorth \/ (any_without_errorth /\ max_1_errorth))
        THEN Returned(lst)
        ELSE IF no_errorth /\ MaxOf(der_count) <= 1
        THEN Returned(lst)
        ELSE IF Len(lst) >= 2 /\ any_without_der /\ most_1_without_der
        THEN Returned(<<lst[IndexOf(der_count, 0)],
                        lst[IndexOf(der_count, NSmallest2Last(der_count))]>>)
        ELSE IF all_has_der
        THEN Returned(<<lst[IndexOf(der_count, MinOf(der_count))]>>)
        ELSE IF any_without_errorth /\ any_with_errorth
        THEN Returned(SelectSeq(lst, LAMBDA a : Count(a, sErrOrth) = 0))
        ELSE Returned(lst)

\* a plausible slip: the minimum-Der rule takes the line with the most Der
rearrange_on_count_max_der(lst) ==
    IF Len(lst) = 0 THEN Raised("ValueError")
    ELSE
    LET errorth_count == CountEach(lst, sErrOrth)
        any_without_errorth == MinOf(errorth_count) = 0
        any_with_errorth == MaxOf(errorth_count) > 0
        max_1_errorth == MaxOf(errorth_count) = 1
        no_errorth == MaxOf(errorth_count) = 0
        der_count == CountEach(lst, sDer)
        any_without_der == MinOf(der_count) = 0
        most_1_without_der == NSmallest2Last(der_count) > 0
        all_has_der == MinOf(der_count) > 0
    IN  IF ~(no_errorth \/ (any_without_errorth /\ max_1_errorth))
        THEN Returned(lst)
        ELSE IF Len(lst) >= 2 /\ any_without_der /\ most_1_without_der
        THEN Returned(<<lst[IndexOf(der_count, 0)],
                        lst[IndexOf(der_count, NSmallest2Last(der_count))]>>)
        ELSE IF no_errorth /\ MaxOf(der_count) <= 1
        THEN Returned(lst)
        ELSE IF all_has_der
        THEN Returned(<<lst[IndexOf(der_count, MaxOf(der_count))]>>)
        ELSE IF any_without_errorth /\ any_with_errorth
        THEN Returned(SelectSeq(lst, LAMBDA a : Count(a, sErrOrth) = 0))
        ELSE Returned(lst)

\* rearrange_on_count: min() and max() of an empty list raise ValueError
rearrange_on_count(lst) ==
    IF Len(lst) = 0 THEN Raised("ValueError")
    ELSE
    LET errorth_count == CountEach(lst, sErrOrth)
        any_without_errorth == MinOf(errorth_count) = 0
        any_with_errorth == MaxOf(errorth_count) > 0
        max_1_errorth == MaxOf(errorth_count) = 1
        no_errorth == MaxOf(errorth_count) = 0
        der_count == CountEach(lst, sDer)
        any_without_der == MinOf(der_count) = 0
        most_1_without_der == NSmallest2Last(der_count) > 0
        all_has_der == MinOf(der_count) > 0
    IN  IF ~(no_errorth \/ (any_without_errorth /\ max_1_errorth))
        THEN Returned(lst)
        ELSE IF Len(lst) >= 2 /\ any_without_der /\ most_1_without_der
        THEN Returned(<<lst[IndexOf(der_count, 0)],
                        lst[IndexOf(der_count, NSmallest2Last(der_count))]>>)
        ELSE IF no_errorth /\ MaxOf(der_count) <= 1
        THEN Returned(lst)
        ELSE IF all_has_der
        THEN Returned(<<lst[IndexOf(der_count, MinOf(der_count))]>>)
        ELSE IF any_without_errorth /\ any_with_errorth
        THEN Returned(SelectSeq(lst, LAMBDA a : Count(a, sErrOrth) = 0))
        ELSE Returned(lst)

\* inputs of rearrange_on_count
s_a == <<"a">>
s_b == <<"b">>
s_a_Der == s_a \o Plus \o sDer
s_b_Der == s_b \o Plus \o sDer
s_a_Der_Der == s_a \o Plus \o sDer \o Plus \o sDer
s_b_Der_Der == s_b \o Plus \o sDer \o Plus \o sDer
s_b_ErrOrth == s_b \o Plus \o sErrOrth
s_a_Der_ErrOrth == s_a \o Plus \o sDer \o Plus \o sErrOrth
s_b_ErrOrth2 == s_b \o Plus \o sErrOrth \o Plus \o sErrOrth
CountVocab ==
    {s_a, s_b, s_a_Der, s_b_Der, s_a_Der_Der, s_b_Der_Der, s_b_ErrOrth,
     s_a_Der_ErrOrth, s_b_ErrOrth2}

InitCount ==
    /\ pc = "start"
    /\ form = <<>>
    /\ analyses_in \in SeqsOf(CountVocab, 0, MaxAnalyses)
    /\ analyses = analyses_in
    /\ ret = Returned(PyNone)
    /\ Idle

RearrangeOnCount ==
    /\ pc = "start"
    /\ ret' = rearrange_on_count(analyses)
    /\ pc' = "rearrange_on_count"
    /\ UNCHANGED <<form, analyses_in, analyses, lookups, tagsets, options, flags, tag,
                   paradigmVars, serviceVars, execVars>>

NextCount == RearrangeOnCount

SpecCount == InitCount /\ [][NextCount]_vars

\* the number of positions of a at which the marker occurs
Occurrences(a, marker) == Cardinality({i \in 1..Len(a) : OccursAt(a, marker, i)})

NoErrOrth(lst) == \A i \in 1..Len(lst) : Occurrences(lst[i], sErrOrth) = 0
DerFree(lst) == {i \in 1..Len(lst) : Occurrences(lst[i], sDer) = 0}
FirstWhere(S) == CHOOSE i \in S : \A j \in S : i <= j

\* the lists of C2: non-empty, no Err/Orth, at most one Der per analysis
C2_Case(lst) ==
    /\ Len(lst) >= 1
    /\ NoErrOrth(lst)
    /\ \A i \in 1..Len(lst) : Occurrences(lst[i], sDer) <= 1

\* C2 as stated: rearrange_on_count returns every non-empty list without
\* Err/Orth and with at most one Der per analysis unchanged
C2_Original ==
    (pc = "rearrange_on_count" /\ C2_Case(analyses_in)) =>
        (~ret.raised /\ ret.val = analyses_in)

\* C2 amended: on such a list rearrange_on_count returns the input unchanged
\* unless the list has at least two analyses of which exactly one is free of
\* Der; then it returns two analyses, the Der-free one followed by the first
\* analysis that contains Der (["a+Der", "b"] yields ["b", "a+Der"]).
C2_Amended ==
    (pc = "rearrange_on_count" /\ C2_Case(analyses_in)) =>
        /\ ~ret.raised
        /\ IF Len(analyses_in) >= 2 /\ Cardinality(DerFree(analyses_in)) = 1
           THEN ret.val =
                  <<analyses_in[FirstWhere(DerFree(analyses_in))],
                    analyses_in[FirstWhere((1..Len(analyses_in)) \ DerFree(analyses_in))]>>
           ELSE ret.val = analyses_in

C2_Witness ==
    /\ pc = "rearrange_on_count"
    /\ analyses_in = <<s_a_Der, s_b>>
    /\ ret = Returned(<<s_b, s_a_Der>>)

\* C3: without Err/Orth, when every analysis contains Der and some analysis
\* contains it more than once, rearrange_on_count returns exactly the first
\* analysis (in input order) with the minimum Der count.
C3_MinimumDer ==
    ( /\ pc = "rearrange_on_count"
      /\ Len(analyses_in) >= 1
      /\ NoErrOrth(analyses_in)
      /\ \A i \in 1..Len(analyses_in) : Occurrences(analyses_in[i], sDer) >= 1
      /\ \E i \in 1..Len(analyses_in) : Occurrences(analyses_in[i], sDer) > 1 ) =>
        /\ ~ret.raised
        /\ \E k \in 1..Len(analyses_in) :
              /\ ret.val = <<analyses_in[k]>>
              /\ \A j \in 1..Len(analyses_in) :
                    /\ Occurrences(analyses_in[k], sDer) <= Occurrences(analyses_in[j], sDer)
                    /\ (j < k) =>
                          Occurrences(analyses_in[j], sDer) > Occurrences(analyses_in[k], sDer)

C3_Witness ==
    /\ pc = "rearrange_on_count"
    /\ analyses_in = <<s_a_Der_Der, s_b_Der>>
    /\ ret = Returned(<<s_b_Der>>)

(***************************************************************************)
(* TagPart, Tagset, Tag                                                    *)
(***************************************************************************)

\* a dict without entries: options = {} or tagsets = {}
EmptyDict == [k \in {} |-> 0]

\* dict.get(key, default)
DictGet(dict, key, default) == IF key \in DOMAIN dict THEN dict[key] ELSE default

\* TagPart.__init__: t is a str (val = t, regex = None), or a dict
\* {match: val, regex: flag}; isdict records which
Literal(text) == [val |-> text, regex |-> FALSE, isdict |-> FALSE]
Pattern(text) == [val |-> text, regex |-> TRUE, isdict |-> TRUE]
Descriptor(text) == [val |-> text, regex |-> FALSE, isdict |-> TRUE]

\* re.compile(pattern).match(other) for the patterns of the tagset files: an
\* optional '^' followed by literal characters.  match() is anchored at the
\* start of other and not at its end.
ReMatch(pattern, other) ==
    LET lit == IF Len(pattern) > 0 /\ pattern[1] = "^" THEN Tail(pattern) ELSE pattern
    IN  StartsWith(other, lit)

\* a plausible slip: re.search instead of re.match
ReSearch(pattern, other) ==
    IF Len(pattern) > 0 /\ pattern[1] = "^"
    THEN StartsWith(other, Tail(pattern))
    ELSE Contains(other, pattern)

TagPartEq_search(part, other) ==
    IF ~part.regex THEN part.val = other ELSE ReSearch(part.val, other)

\* TagPart.__eq__
TagPartEq(part, other) ==
    IF ~part.regex THEN part.val = other ELSE ReMatch(part.val, other)

\* item in members (Tagset.__contains__, and 'p in tagset.members')
InMembers(item, members) == \E i \in 1..Len(members) : TagPartEq(members[i], item)

\* Tag.__init__: parts = tag_string.split(sep)
Tag(string, sep) == [tag_string |-> string, sep |-> sep, parts |-> Split(string, sep)]

\* a plausible slip: the last matching part instead of the first
getTagByTagset_last(t, members) ==
    LET hits == {i \in 1..Len(t.parts) : InMembers(t.parts[i], members)}
    IN  IF hits = {} THEN PyNone
        ELSE t.parts[CHOOSE i \in hits : \A j \in hits : j <= i]

\* Tag.getTagByTagset: the first part that is in tagset.members, else None
getTagByTagset(t, members) ==
    LET hits == {i \in 1..Len(t.parts) : InMembers(t.parts[i], members)}
    IN  IF hits = {} THEN PyNone
        ELSE t.parts[CHOOSE i \in hits : \A j \in hits : i <= j]

\* Tag.__getitem__(b) for b the name of a tagset; sets is the dict of tagsets
TagGetItem(t, sets, b) ==
    IF b \notin DOMAIN sets THEN Raised("IndexError")
    ELSE Returned(getTagByTagset(t, sets[b]))

\* Tag.__contains__(b) for a str b, used as a truth value
TagContains(sets, b) == b \in DOMAIN sets

\* the delimiter chosen by formatTag, splitAnalysis and tagStringToTag
Delim(opts, inverse) ==
    IF inverse
    THEN DictGet(opts, "inverse_tagsep", DictGet(opts, "tagsep", Plus))
    ELSE DictGet(opts, "tagsep", Plus)

\* XFST.formatTag
formatTag(parts, opts, inverse) == Join(Delim(opts, inverse), parts)

\* a plausible slip: splitAnalysis ignores inverse
splitAnalysis_tagsep(analysis, opts, inverse) == Split(analysis, Delim(opts, FALSE))

\* XFST.splitAnalysis
splitAnalysis(analysis, opts, inverse) == Split(analysis, Delim(opts, inverse))

(***************************************************************************)
(* formatTag / splitAnalysis on drawn parts and separators                 *)
(***************************************************************************)
MaxParts == 3

Space == <<" ">>
\* the separators of the configurations: single characters
Separators == {Plus, Space}
SepOptions ==
    {EmptyDict}
    \cup {[tagsep |-> a] : a \in Separators}
    \cup {[inverse_tagsep |-> b] : b \in Separators}
    \cup {[tagsep |-> a, inverse_tagsep |-> b] : a \in Separators, b \in Separators}

PartVocab == {<<>>, <<"a">>, <<"N">>, <<"a", "+", "b">>, <<"a", " ", "b">>}

InitFormat ==
    /\ pc = "start"
    /\ tag \in SeqsOf(PartVocab, 0, MaxParts)
    /\ options \in SepOptions
    /\ ret = Returned(PyNone)
    /\ form = <<>>
    /\ analyses_in = <<>>
    /\ analyses = <<>>
    /\ lookups = <<>>
    /\ tagsets = <<>>
    /\ flags = <<>>
    /\ rules = <<>>
    /\ node = PyNone
    /\ proc = <<>>
    /\ clock = 0
    /\ NoService

\* splitAnalysis(formatTag(parts)), both with inverse=False
FormatThenSplit ==
    /\ pc = "start"
    /\ ret' = Returned(splitAnalysis(formatTag(tag, options, FALSE), options, FALSE))
    /\ pc' = "format_split"
    /\ UNCHANGED <<form, analyses_in, analyses, lookups, tagsets, options, flags, tag,
                   paradigmVars, serviceVars, execVars>>

\* splitAnalysis(formatTag(parts, inverse=True), inverse=True)
FormatThenSplitInverse ==
    /\ pc = "start"
    /\ ret' = Returned(splitAnalysis(formatTag(tag, options, TRUE), options, TRUE))
    /\ pc' = "format_split_inverse"
    /\ UNCHANGED <<form, analyses_in, analyses, lookups, tagsets, options, flags, tag,
                   paradigmVars, serviceVars, execVars>>

NextFormat == FormatThenSplit \/ FormatThenSplitInverse

SpecFormat == InitFormat /\ [][NextFormat]_vars

\* the separator the claim speaks of: tagsep (default '+'), and with
\* inverse=True inverse_tagsep when it is configured
ClaimedSep(inverse) ==
    IF inverse /\ "inverse_tagsep" \in DOMAIN options THEN options.inverse_tagsep
    ELSE IF "tagsep" \in DOMAIN options THEN options.tagsep
    ELSE <<"+">>

SeparatorFree(parts, sep) ==
    \A i \in 1..Len(parts) : \A k \in 1..Len(parts[i]) : <<parts[i][k]>> # sep

MaxMembers == 2

s_V == <<"V">>
s_N == <<"N">>
s_PV == <<"P", "V">>
s_hatPV == <<"^", "P", "V">>
s_PVe == <<"P", "V", "/", "e">>
MemberVocab == {Literal(s_V), Literal(s_N), Literal(s_PVe), Pattern(s_hatPV), Pattern(s_V),
                Descriptor(s_PV)}
TagStrings ==
    { s_PVe \o Plus \o s_V \o Plus \o <<"S", "g">>,
      s_N \o Plus \o <<"G", "3">> \o Plus \o <<"S", "g">>,
      <<"I", "V">> \o Plus \o s_N,
      <<"x">> \o s_PV \o Plus \o <<"I", "V">>,
      s_PV \o Plus \o s_V \o <<"A", "b", "e", "s", "s">>,
      <<"S", "g">> }

InitTag ==
    /\ pc = "start"
    /\ tag \in TagStrings
    /\ tagsets \in {EmptyDict} \cup {[type |-> m] : m \in SeqsOf(MemberVocab, 0, MaxMembers)}
    /\ options = EmptyDict
    /\ ret = Returned(PyNone)
    /\ form = <<>>
    /\ analyses_in = <<>>
    /\ analyses = <<>>
    /\ lookups = <<>>
    /\ flags = <<>>
    /\ rules = <<>>
    /\ node = PyNone
    /\ proc = <<>>
    /\ clock = 0
    /\ NoService

\* tag[tagset] with a Tagset object
GetItemByTagset ==
    /\ pc = "start"
    /\ "type" \in DOMAIN tagsets
    /\ ret' = Returned(getTagByTagset(Tag(tag, Delim(options, FALSE)), tagsets.type))
    /\ pc' = "getitem_tagset"
    /\ UNCHANGED <<form, analyses_in, analyses, lookups, tagsets, options, flags, tag,
                   paradigmVars, serviceVars, execVars>>

\* tag["type"] with the name of a tagset
GetItemByName ==
    /\ pc = "start"
    /\ ret' = TagGetItem(Tag(tag, Delim(options, FALSE)), tagsets, "type")
    /\ pc' = "getitem_name"
    /\ UNCHANGED <<form, analyses_in, analyses, lookups, tagsets, options, flags, tag,
                   paradigmVars, serviceVars, execVars>>

NextTag == GetItemByTagset \/ GetItemByName

SpecTag == InitTag /\ [][NextTag]_vars

\* member m of a tagset equals the part p: identical strings for a literal
\* member, the pattern matching at the start of p for a regex member
MemberEquals(m, p) ==
    IF m.regex
    THEN LET body == IF m.val[1] = "^" THEN SubSeq(m.val, 2, Len(m.val)) ELSE m.val
         IN  Len(body) <= Len(p) /\ \A k \in 1..Len(body) : p[k] = body[k]
    ELSE m.val = p

PartMatches(p, members) == \E i \in 1..Len(members) : MemberEquals(members[i], p)

\* C7: tag[tagset] is the first part of the tag that equals some member of
\* the tagset, and None when no part does.
C7_FirstMatchingPart ==
    (pc \in {"getitem_tagset", "getitem_name"} /\ "type" \in DOMAIN tagsets) =>
        LET parts == Split(tag, <<"+">>)
            members == tagsets.type
        IN  /\ ~ret.raised
            /\ IF \E i \in 1..Len(parts) : PartMatches(parts[i], members)
               THEN \E i \in 1..Len(parts) :
                       /\ ret.val = parts[i]
                       /\ PartMatches(parts[i], members)
                       /\ \A j \in 1..(i - 1) : ~PartMatches(parts[j], members)
               ELSE ret.val = PyNone

\* the docstring's case: Tag('PV/e+V+Sg')[preverb] with a regex member '^PV'
\* listed after a literal that matches a later part
C7_Witness ==
    /\ pc = "getitem_tagset"
    /\ tag = s_PVe \o Plus \o s_V \o Plus \o <<"S", "g">>
    /\ tagsets = [type |-> <<Literal(s_V), Pattern(s_hatPV)>>]
    /\ ret = Returned(s_PVe)

(***************************************************************************)
(* Lemma.__init__                                                          *)
(***************************************************************************)

\* a value that is a str in some calls and a list of str in others
StrVal(text) == [str |-> text]
ListVal(items) == [list |-> items]

s_A == <<"A">>
s_Unknown == <<"U", "n", "k", "n", "o", "w", "n">>

\* options.get("actio_tag", "Actio") + options.get("tagsep", "+")
ActioTag(opts) == DictGet(opts, "actio_tag", sActio)
ActioWithTagsep(opts) == ActioTag(opts) \o DictGet(opts, "tagsep", Plus)

\* XFST.tagStringToTag(parts) for a list parts: when the list holds the
\* element actio_with_tagsep the list itself is handed to Tag(), whose
\* tag_string.split raises AttributeError; otherwise the parts are joined
tagStringToTag(parts, opts, inverse) ==
    IF InList(ActioWithTagsep(opts), parts) THEN Raised("AttributeError")
    ELSE Returned(Tag(Join(Delim(opts, inverse), parts), Delim(opts, inverse)))

\* every TagPart of every tagset
AllMembers(sets) == UNION {{sets[k][i] : i \in 1..Len(sets[k])} : k \in DOMAIN sets}

\* Tagsets.all_tags: tags.add(tag) hashes the TagPart with hash(self.t),
\* which raises TypeError when t is a dict
all_tags(sets) ==
    IF \E m \in AllMembers(sets) : m.isdict THEN Raised("TypeError")
    ELSE Returned(AllMembers(sets))

\* x in all_tags
InAllTags(x, tags) == \E m \in tags : TagPartEq(m, x)

\* a plausible slip: the adjective derivations are consulted before the verb
\* derivations
FallbackPos_adjective_first(lemma, sets) ==
    IF "adjective_derivations" \in DOMAIN sets
       /\ InMembers(lemma, sets["adjective_derivations"])
    THEN s_A
    ELSE IF "verb_derivations" \in DOMAIN sets /\ InMembers(lemma, sets["verb_derivations"])
    THEN s_V
    ELSE s_Unknown

\* the part of speech given to a Lemma whose tag has no 'pos' part
FallbackPos(lemma, sets) ==
    IF "verb_derivations" \in DOMAIN sets /\ InMembers(lemma, sets["verb_derivations"])
    THEN s_V
    ELSE IF "adjective_derivations" \in DOMAIN sets
            /\ InMembers(lemma, sets["adjective_derivations"])
    THEN s_A
    ELSE s_Unknown

\* the lemma string chosen by Lemma.__init__ (lines 270-298)
ResolveLemma(parts, tags) ==
    IF ~InAllTags(parts[1], tags) THEN parts[1]
    ELSE LET not_tags == SelectSeq(parts, LAMBDA t : ~InAllTags(t, tags))
         IN  IF Len(not_tags) > 0 THEN not_tags[1] ELSE parts[1]

\* Lemma(tag, _input, tool, tagsets), tag a list of parts
LemmaInit(parts, input, opts, sets) ==
    LET t == tagStringToTag(parts, opts, FALSE)
        tags == all_tags(sets)
    IN  IF t.raised THEN t
        ELSE IF Len(parts) = 0 THEN Raised("IndexError")
        ELSE IF InList(ActioWithTagsep(opts), parts) THEN Raised("AssertionError")
        ELSE IF tags.raised THEN tags
        ELSE LET pos == TagGetItem(t.val, sets, "pos")
             IN  IF pos.raised THEN pos
                 ELSE IF ~TagContains(sets, "pos") THEN Raised("AssertionError")
                 ELSE Returned(
                        [lemma |-> ResolveLemma(parts, tags.val),
                         pos |-> IF pos.val = PyNone
                                 THEN FallbackPos(ResolveLemma(parts, tags.val), sets)
                                 ELSE pos.val,
                         tag |-> t.val,
                         tag_raw |-> parts,
                         input |-> input,
                         form |-> input])

(***************************************************************************)
(* The steps of Morphology.lookups_to_lemma                                *)
(***************************************************************************)

\* the value of an option that is a str or a list of str
IsList(v) == "list" \in DOMAIN v
Truthy(v) == IF IsList(v) THEN Len(v.list) > 0 ELSE Len(v.str) > 0

\* Morphology.remove_compound_analyses: 'cmp in analysis' raises TypeError
\* when cmp is a list
remove_compound_analyses(lst, opts) ==
    IF "compoundBoundary" \notin DOMAIN opts \/ ~Truthy(opts.compoundBoundary)
    THEN Returned(lst)
    ELSE IF IsList(opts.compoundBoundary)
    THEN IF Len(lst) = 0 THEN Returned(lst) ELSE Raised("TypeError")
    ELSE Returned(SelectSeq(lst, LAMBDA a : ~Contains(a, opts.compoundBoundary.str)))

\* Morphology.remove_derivations
remove_derivations(lst, opts) ==
    IF "derivationMarker" \notin DOMAIN opts \/ Len(opts.derivationMarker) = 0
    THEN lst
    ELSE SelectSeq(lst, LAMBDA a : ~Contains(a, opts.derivationMarker))

\* lemma_len of place_longest_lemmas_first
lemma_len(line) == IF Find(line, Plus) >= 0 THEN Find(line, Plus) ELSE Len(line)

\* all orders of the elements of lst that keep those satisfying sat first
Arrangements(lst, sat) ==
    LET n == Len(lst)
        perms == {q \in [1..n -> 1..n] : \A i, j \in 1..n : q[i] = q[j] => i = j}
    IN  {[i \in 1..n |-> lst[q[i]]] : q \in
            {q \in perms : \A i, j \in 1..n : (i < j /\ sat[q[j]]) => sat[q[i]]}}

\* neahtta.utils.partition.partition_in_place(lst, pred), with
\* sat[i] = pred(lst[i]): the elements satisfying pred first; the order
\* inside the two groups is not promised, so every such order is possible
PartitionInPlace(lst, sat) == Arrangements(lst, sat)

\* Morphology.place_longest_lemmas_first on a non-empty list: the possible
\* orders of the list afterwards
place_longest_lemmas_first(lst) ==
    LET lens == [i \in 1..Len(lst) |-> lemma_len(lst[i])]
        longest == MaxOf(lens)
    IN  PartitionInPlace(lst, [i \in 1..Len(lst) |-> lens[i] = longest])

\* the circled letters c, d and l that splitTagByCompound inserts
Circled_c == <<"U+24D2">>
Circled_d == <<"U+24D3">>
Circled_l == <<"U+24DB">>
sCmp == <<"C", "m", "p">>

\* the marking of the last piece of a split compound
MarkLast(pieces, is_cmp) ==
    LET last == pieces[Len(pieces)]
        ind_der == Find(last, sDer)
        marked == IF Contains(last, sDer)
                  THEN Slice(last, 0, ind_der) \o Circled_d \o Plus
                         \o SliceFrom(last, ind_der) \o Plus \o Circled_l
                  ELSE last \o Plus \o Circled_c
    IN  IF is_cmp THEN [pieces EXCEPT ![Len(pieces)] = marked] ELSE pieces

\* the loop of splitTagByCompound over a list of boundaries: once an item
\* has split the analysis it is a list, 'item in analysis' tests its
\* elements and analysis.split raises AttributeError
RECURSIVE SplitByItems(_, _, _, _)
SplitByItems(items, pieces, islist, is_cmp) ==
    IF Len(items) = 0 THEN Returned(pieces)
    ELSE IF islist
    THEN IF InList(items[1], pieces) THEN Raised("AttributeError")
         ELSE SplitByItems(Tail(items), pieces, TRUE, is_cmp)
    ELSE IF Contains(pieces[1], items[1])
    THEN SplitByItems(Tail(items), MarkLast(Split(pieces[1], items[1]), is_cmp), TRUE, is_cmp)
    ELSE SplitByItems(Tail(items), pieces, FALSE, is_cmp)

\* XFST.splitTagByCompound
splitTagByCompound(analysis, opts) ==
    IF "compoundBoundary" \notin DOMAIN opts \/ ~Truthy(opts.compoundBoundary)
    THEN Returned(<<analysis>>)
    ELSE IF IsList(opts.compoundBoundary)
    THEN SplitByItems(opts.compoundBoundary.list, <<analysis>>, FALSE, Contains(analysis, sCmp))
    ELSE Returned(MarkLast(Split(analysis, opts.compoundBoundary.str),
                           Contains(analysis, sCmp)))

\* Morphology.split_on_compounds
RECURSIVE split_on_compounds(_, _)
split_on_compounds(lst, opts) ==
    IF Len(lst) = 0 THEN Returned(<<>>)
    ELSE LET h == splitTagByCompound(lst[1], opts)
             t == split_on_compounds(Tail(lst), opts)
         IN  IF h.raised THEN h
             ELSE IF t.raised THEN t
             ELSE Returned(h.val \o t.val)

\* neahtta.utils.remove_duplicates.remove_duplicates(lst, keep_order=True)
remove_duplicates(lst) ==
    LET F[i \in 0..Len(lst)] ==
            IF i = 0 THEN <<>>
            ELSE IF InList(lst[i], F[i - 1]) THEN F[i - 1] ELSE Append(F[i - 1], lst[i])
    IN  F[Len(lst)]

\* options.get("tags_in_lexicon", ("Dummy1", "Dummy2"))
DefaultBreakTags == << <<"D", "u", "m", "m", "y", "1">>, <<"D", "u", "m", "m", "y", "2">> >>
BreakTags(opts) == DictGet(opts, "tags_in_lexicon", DefaultBreakTags)

\* part.startswith(tags) for a tuple of tags
StartsWithAny(part, tags) == \E i \in 1..Len(tags) : StartsWith(part, tags[i])

\* the pieces of one analysis in make_analyses_der_fin (lines 1341-1364)
DerFinPieces(analysis, opts) ==
    LET tagsep == DictGet(opts, "tagsep", Plus)
        replaced == Replace(analysis, ActioWithTagsep(opts), ActioTag(opts))
        analysis_parts == Split(replaced, tagsep)
        n == Len(analysis_parts)
        breaks == {i \in 2..n : StartsWithAny(analysis_parts[i], BreakTags(opts))}
        \* the piece that starts at part i runs up to the next break
        upto(i) == IF \E j \in breaks : j > i
                   THEN (CHOOSE j \in breaks : j > i /\ \A k \in breaks : k > i => j <= k) - 1
                   ELSE n
        F[i \in 0..n] ==
            IF i = 0 THEN <<>>
            ELSE IF i = 1 \/ i \in breaks
            THEN Append(F[i - 1], Join(tagsep, SubSeq(analysis_parts, i, upto(i))))
            ELSE F[i - 1]
    IN  IF breaks = {} THEN <<replaced>> ELSE F[n]

\* a plausible slip: the pieces are not deduplicated
make_analyses_der_fin_keep_duplicates(lst, opts) ==
    LET F[i \in 0..Len(lst)] ==
            IF i = 0 THEN <<>> ELSE F[i - 1] \o DerFinPieces(lst[i], opts)
    IN  F[Len(lst)]

\* Morphology.make_analyses_der_fin
make_analyses_der_fin(lst, opts) ==
    LET F[i \in 0..Len(lst)] ==
            IF i = 0 THEN <<>> ELSE F[i - 1] \o DerFinPieces(lst[i], opts)
    IN  remove_duplicates(F[Len(lst)])

\* Morphology.analysis_to_lemma
analysis_to_lemma(analysis, wordform, opts, sets) ==
    LET analysis_parts == splitAnalysis(analysis, opts, FALSE)
        actio_tag == ActioTag(opts)
    IN  IF Len(analysis_parts) = 1
        THEN IF Contains(analysis_parts[1], actio_tag)
             THEN LET right_of_actio == Split(analysis_parts[1], actio_tag)[2]
                      new_parts == <<ActioWithTagsep(opts) \o right_of_actio>>
                  IN  LemmaInit(new_parts, ListVal(new_parts), opts, sets)
             ELSE LemmaInit(analysis_parts, StrVal(<<>>), opts, sets)
        ELSE LemmaInit(analysis_parts, StrVal(wordform), opts, sets)

(***************************************************************************)
(* Morphology.morph_lemmatize                                              *)
(***************************************************************************)

\* the outcome of a lemmatization: the list of Lemmas returned, or the
\* exception raised, and the number of Lemma constructions started
Lemmas(list, n) == [raised |-> FALSE, val |-> list, built |-> n]
Failed(e, n) == [raised |-> TRUE, exc |-> e, built |-> n]

\* a plausible slip: the surface form of a block is searched for '?' as well
has_unknown_surface(blocks) ==
    \E i \in 1..Len(blocks) :
        \/ Contains(blocks[i].surface, sQuestion)
        \/ \E j \in 1..Len(blocks[i].analyses) : Contains(blocks[i].analyses[j], sQuestion)

\* Morphology.has_unknown
has_unknown(blocks) ==
    \E i \in 1..Len(blocks) :
        \E j \in 1..Len(blocks[i].analyses) : Contains(blocks[i].analyses[j], sQuestion)

\* 'for analysis in analyses_der_fin: yield self.analysis_to_lemma(...)'
RECURSIVE BuildLemmas(_, _, _, _)
BuildLemmas(pieces, wordform, opts, sets) ==
    IF Len(pieces) = 0 THEN Lemmas(<<>>, 0)
    ELSE LET h == analysis_to_lemma(pieces[1], wordform, opts, sets)
         IN  IF h.raised THEN Failed(h.exc, 1)
             ELSE LET t == BuildLemmas(Tail(pieces), wordform, opts, sets)
                  IN  IF t.raised THEN Failed(t.exc, 1 + t.built)
                      ELSE Lemmas(<<h.val>> \o t.val, 1 + t.built)

\* lookups_to_lemma for one block, from rearrange_on_count on (lines 1274-1282)
AfterReorder(lst, wordform, kw, opts, sets) ==
    LET counted == rearrange_on_count(lst)
        split == IF counted.raised THEN counted
                 ELSE IF kw.split_compounds THEN split_on_compounds(counted.val, opts)
                 ELSE counted
    IN  IF split.raised THEN Failed(split.exc, 0)
        ELSE BuildLemmas(make_analyses_der_fin(split.val, opts), wordform, opts, sets)

\* lookups_to_lemma for one block: the possible outcomes (one for each order
\* place_longest_lemmas_first may leave)
BlockOutcomes(lst, wordform, kw, opts, sets) ==
    LET kept == IF kw.non_compound_only THEN remove_compound_analyses(lst, opts)
                ELSE Returned(lst)
    IN  IF kept.raised THEN {Failed(kept.exc, 0)}
        ELSE LET filtered == IF kw.no_derivations THEN remove_derivations(kept.val, opts)
                             ELSE kept.val
                 exact == place_exact_lemmas_first(wordform, filtered)
             IN  IF exact.n # 0
                 THEN {AfterReorder(exact.lst, wordform, kw, opts, sets)}
                 ELSE IF Len(filtered) = 0 THEN {Failed("ValueError", 0)}
                 ELSE {AfterReorder(arr, wordform, kw, opts, sets) :
                          arr \in place_longest_lemmas_first(exact.lst)}

\* Morphology.lookups_to_lemma, consumed by list(): the possible outcomes
RECURSIVE lookups_to_lemma(_, _, _, _, _)
lookups_to_lemma(wordform, blocks, kw, opts, sets) ==
    IF Len(blocks) = 0 THEN {Lemmas(<<>>, 0)}
    ELSE LET heads == BlockOutcomes(blocks[1].analyses, wordform, kw, opts, sets)
             tails == lookups_to_lemma(wordform, Tail(blocks), kw, opts, sets)
         IN  {h \in heads : h.raised}
             \cup {Failed(t.exc, h.built + t.built) :
                      <<h, t>> \in {x \in heads \X tails : ~x[1].raised /\ x[2].raised}}
             \cup {Lemmas(h.val \o t.val, h.built + t.built) :
                      <<h, t>> \in {x \in heads \X tails : ~x[1].raised /\ ~x[2].raised}}

\* a plausible slip: the lookups are lemmatized without the unknown check
morph_lemmatize_unchecked(wordform, blocks, kw, opts, sets) ==
    lookups_to_lemma(wordform, blocks, kw, opts, sets)

\* Morphology.morph_lemmatize, after tool.lookup([form]) has returned blocks
morph_lemmatize(wordform, blocks, kw, opts, sets) ==
    IF has_unknown(blocks) THEN {Lemmas(<<>>, 0)}
    ELSE lookups_to_lemma(wordform, blocks, kw, opts, sets)

(***************************************************************************)
(* Lemmatization of drawn analyzer answers                                 *)
(***************************************************************************)
MaxBlocks == 2

s_ba == <<"b", "a">>
s_bi == <<"b", "i">>
s_IV == <<"I", "V">>
s_Sg == <<"S", "g">>
s_Gen == <<"G", "e", "n">>
s_Nom == <<"N", "o", "m">>
s_ActioGen == sActio \o Plus \o s_Gen
s_ActioNom == sActio \o Plus \o s_Nom
s_DerSlash == sDer \o <<"/">>
s_CmpBoundary == Plus \o sCmp \o <<"#">>
s_bi_V_IV == s_bi \o Plus \o s_V \o Plus \o s_IV
a_ActioGen == s_bi_V_IV \o Plus \o s_ActioGen
a_ActioNom == s_bi_V_IV \o Plus \o s_ActioNom
a_N == s_ba \o Plus \o s_N \o Plus \o s_Sg
a_Unknown == s_ba \o Plus \o sQuestion
a_Der == s_bi \o Plus \o s_V \o Plus \o s_DerSlash \o s_Nom \o Plus \o s_N
a_Cmp == s_ba \o Plus \o s_N \o s_CmpBoundary \o s_bi \o Plus \o s_N
a_ActioEnd == s_bi \o Plus \o s_V \o Plus \o sActio

Block(surface, lst) == [surface |-> surface, analyses |-> lst, weights |-> <<>>]
b_Actio == Block(s_ba, <<a_ActioGen, a_ActioNom>>)
b_Mixed == Block(s_ba, <<a_N, a_Der, a_Cmp>>)
b_Unknown == Block(s_ba, <<a_Unknown>>)
b_SurfaceOnly == Block(<<"b", "?">>, <<a_N>>)
b_ActioEnd == Block(s_ba, <<a_ActioEnd>>)
b_DerCmp == Block(s_bi, <<a_Der, a_Cmp>>)
BlockVocab == {b_Actio, b_Mixed, b_Unknown, b_SurfaceOnly, b_ActioEnd, b_DerCmp}

Forms == {s_ba, s_bi}

\* tagset files: every one has a 'pos' tagset; members are literals or
\* {match, regex} descriptors
ts_plain == [pos |-> <<Literal(s_V), Literal(s_N)>>]
ts_derivations ==
    [pos |-> <<Literal(s_V), Literal(s_N)>>,
     verb_derivations |-> <<Literal(s_ActioGen)>>,
     adjective_derivations |-> <<Literal(s_ActioNom), Literal(s_ActioGen)>>]
ts_regex == [pos |-> <<Literal(s_V), Literal(s_N)>>, preverb |-> <<Pattern(s_hatPV)>>]
ts_lemma_is_tag ==
    [pos |-> <<Literal(s_N)>>, type |-> <<Literal(s_bi)>>,
     verb_derivations |-> <<Literal(s_V)>>]
TagsetConfigs == {ts_plain, ts_derivations, ts_regex, ts_lemma_is_tag}

opt_sme ==
    [tags_in_lexicon |-> <<sDer, sActio>>,
     compoundBoundary |-> StrVal(s_CmpBoundary),
     derivationMarker |-> s_DerSlash]
OptionConfigs == {EmptyDict, opt_sme}

\* lemmatize's keyword arguments: none set, each one alone, all three
Keywords ==
    {kw \in [split_compounds : BOOLEAN, non_compound_only : BOOLEAN, no_derivations : BOOLEAN] :
        \/ kw.split_compounds = (kw.non_compound_only /\ kw.no_derivations)
        \/ ~(kw.non_compound_only \/ kw.no_derivations)
        \/ (~kw.split_compounds /\ (kw.non_compound_only # kw.no_derivations))}

Init ==
    /\ pc = "start"
    /\ form \in Forms
    /\ lookups \in SeqsOf(BlockVocab, 0, MaxBlocks)
    /\ tagsets \in TagsetConfigs
    /\ options \in OptionConfigs
    /\ flags \in Keywords
    /\ ret = Returned(PyNone)
    /\ analyses_in = <<>>
    /\ analyses = <<>>
    /\ tag = <<>>
    /\ rules = <<>>
    /\ node = PyNone
    /\ proc = <<>>
    /\ clock = 0
    /\ NoService

HasUnknown ==
    /\ pc = "start"
    /\ ret' = Returned(has_unknown(lookups))
    /\ pc' = "has_unknown"
    /\ UNCHANGED <<form, analyses_in, analyses, lookups, tagsets, options, flags, tag,
                   paradigmVars, serviceVars, execVars>>

MorphLemmatize ==
    /\ pc = "start"
    /\ ret' \in morph_lemmatize(form, lookups, flags, options, tagsets)
    /\ pc' = "morph_lemmatize"
    /\ UNCHANGED <<form, analyses_in, analyses, lookups, tagsets, options, flags, tag,
                   paradigmVars, serviceVars, execVars>>

\* analysis_to_lemma on one analysis of the lookups
AnalysisToLemma ==
    /\ pc = "start"
    /\ \E i \in 1..Len(lookups) : \E j \in 1..Len(lookups[i].analyses) :
          LET l == analysis_to_lemma(lookups[i].analyses[j], form, options, tagsets)
          IN  ret' = IF l.raised THEN Failed(l.exc, 1) ELSE Lemmas(<<l.val>>, 1)
    /\ pc' = "analysis_to_lemma"
    /\ UNCHANGED <<form, analyses_in, analyses, lookups, tagsets, options, flags, tag,
                   paradigmVars, serviceVars, execVars>>

Next == HasUnknown \/ MorphLemmatize \/ AnalysisToLemma

Spec == Init /\ [][Next]_vars

\* some tag string of some block holds the character '?'
QuestionInTags ==
    \E i \in 1..Len(lookups) : \E j \in 1..Len(lookups[i].analyses) :
        \E k \in 1..Len(lookups[i].analyses[j]) : lookups[i].analyses[j][k] = "?"

\* C4: has_unknown is true exactly when some tag string of some block
\* contains '?' (a '?' in the surface form alone does not count), and when
\* it is true morph_lemmatize returns an empty list and constructs no Lemma.
C4_UnknownDetection ==
    /\ pc = "has_unknown" => ret = Returned(QuestionInTags)
    /\ (pc = "morph_lemmatize" /\ QuestionInTags) => ret = Lemmas(<<>>, 0)

\* a block with '?' only in its surface form, then an unknown block
C4_Witness ==
    /\ pc = "morph_lemmatize"
    /\ lookups = <<b_SurfaceOnly, b_Unknown>>
    /\ ret = Lemmas(<<>>, 0)

\* a second case of C4: '?' only in a surface form, has_unknown is false
C4_SurfaceOnlyReached ==
    /\ pc = "has_unknown"
    /\ lookups = <<b_SurfaceOnly>>
    /\ ret = Returned(FALSE)

\* the part of speech the fallback order of C8 gives a Lemma
PosParts(l) == {i \in 1..Len(l.tag.parts) : PartMatches(l.tag.parts[i], tagsets.pos)}
ExpectedPos(l) ==
    IF PosParts(l) # {} THEN l.tag.parts[FirstWhere(PosParts(l))]
    ELSE IF "verb_derivations" \in DOMAIN tagsets
            /\ PartMatches(l.lemma, tagsets.verb_derivations)
    THEN <<"V">>
    ELSE IF "adjective_derivations" \in DOMAIN tagsets
            /\ PartMatches(l.lemma, tagsets.adjective_derivations)
    THEN <<"A">>
    ELSE <<"U", "n", "k", "n", "o", "w", "n">>

\* C8: every Lemma whose construction completes has a part of speech other
\* than None: the first part of its tag in the 'pos' tagset, else 'V' if its
\* lemma is in 'verb_derivations', else 'A' if it is in
\* 'adjective_derivations', else 'Unknown'.
C8_PartOfSpeech ==
    (pc \in {"morph_lemmatize", "analysis_to_lemma"} /\ ~ret.raised) =>
        \A i \in 1..Len(ret.val) :
            /\ ret.val[i].pos # PyNone
            /\ ret.val[i].pos = ExpectedPos(ret.val[i])

\* one lemmatization whose Lemmas take the part of speech from the tag ('V'),
\* from verb_derivations ('V' for Actio+Gen, listed in both derivation
\* tagsets) and from adjective_derivations ('A' for Actio+Nom)
C8_Witness ==
    /\ pc = "morph_lemmatize"
    /\ ~ret.raised
    /\ tagsets = ts_derivations
    /\ Len(ret.val) = 3
    /\ ret.val[1].tag_raw = <<s_bi, s_V, s_IV>> /\ ret.val[1].pos = s_V
    /\ \E i, j \in 2..3 :
          /\ ret.val[i].lemma = s_ActioGen /\ ret.val[i].pos = s_V
          /\ ret.val[j].lemma = s_ActioNom /\ ret.val[j].pos = s_A

\* the analyzer's answer of C9: one block with 'L+V+IV+Actio+Gen' and
\* 'L+V+IV+Actio+Nom', and Actio configured as a break tag
C9_Case ==
    /\ pc = "morph_lemmatize"
    /\ lookups = <<b_Actio>>
    /\ "tags_in_lexicon" \in DOMAIN options
    /\ \E i \in 1..Len(options.tags_in_lexicon) : options.tags_in_lexicon[i] = sActio

LemmasWithTag(parts) == {i \in 1..Len(ret.val) : ret.val[i].tag.parts = parts}

\* C9: for that answer lemmatization raises nothing and yields exactly one
\* Lemma for 'L+V+IV' and two distinct Lemmas for 'Actio+Gen' and
\* 'Actio+Nom', whose part of speech is 'V', 'A' or 'Unknown'.
C9_EndToEnd ==
    C9_Case =>
        /\ ~ret.raised
        /\ Len(ret.val) = 3
        /\ Cardinality(LemmasWithTag(<<s_bi, s_V, s_IV>>)) = 1
        /\ Cardinality(LemmasWithTag(<<sActio, s_Gen>>)) = 1
        /\ Cardinality(LemmasWithTag(<<sActio, s_Nom>>)) = 1
        /\ \A i \in LemmasWithTag(<<sActio, s_Gen>>) \cup LemmasWithTag(<<sActio, s_Nom>>) :
              /\ ret.val[i].pos \in {<<"V">>, <<"A">>, <<"U", "n", "k", "n", "o", "w", "n">>}
              /\ \A j \in 1..Len(ret.val) :
                    j # i => <<ret.val[j].lemma, ret.val[j].pos, ret.val[j].tag_raw>>
                             # <<ret.val[i].lemma, ret.val[i].pos, ret.val[i].tag_raw>>

\* the same statement for the tagset files without {match, regex}
\* descriptors, where Tagsets.all_tags does not raise
C9_LiteralTagsets ==
    (\A m \in AllMembers(tagsets) : ~m.isdict) => C9_EndToEnd

\* an outcome of lookups_to_lemma for one block that raised before any Lemma
\* was constructed: the exception comes from the steps on the list of analyses
RaisedInSteps(o) == o.raised /\ o.built = 0

\* the filters of step 3 leave the block's analyses without raising
FiltersPass(lst) ==
    ~flags.non_compound_only \/ ~remove_compound_analyses(lst, options).raised

\* C12: for every block handed to lookups_to_lemma, the reordering,
\* rearrangement and splitting steps that follow the filters raise nothing,
\* also when the filters have removed every analysis of the block
C12_StepsNeverRaise ==
    pc = "morph_lemmatize" =>
        \A i \in 1..Len(lookups) :
            FiltersPass(lookups[i].analyses) =>
                \A o \in BlockOutcomes(lookups[i].analyses, form, flags, options, tagsets) :
                    ~RaisedInSteps(o)

\* lemmatize has raised ValueError on a block whose analyses were all removed
\* by the filters, before any Lemma was constructed
C12_EmptyBlockRaises ==
    /\ pc = "morph_lemmatize"
    /\ lookups = <<b_DerCmp>>
    /\ flags.non_compound_only /\ flags.no_derivations
    /\ options = opt_sme
    /\ ret = Failed("ValueError", 0)

\* C27: Tagsets.all_tags returns, without raising, a collection holding
\* every member of every configured tagset, also when a tagset has
\* {match, regex} descriptor members, so that the construction of a Lemma
\* does not end with the TypeError of all_tags.
C27_AllTagsTotal ==
    pc = "analysis_to_lemma" =>
        /\ ~all_tags(tagsets).raised
        /\ AllMembers(tagsets) \subseteq all_tags(tagsets).val
        /\ ret # Failed("TypeError", 1)

\* a Lemma constructed under the tagsets with a regex descriptor member has
\* raised the TypeError of all_tags
C27_RegexMemberRaises ==
    /\ pc = "analysis_to_lemma"
    /\ tagsets = ts_regex
    /\ \E m \in AllMembers(tagsets) : m.isdict /\ m.regex
    /\ all_tags(tagsets) = Raised("TypeError")
    /\ ret = Failed("TypeError", 1)


(***************************************************************************)
(* The paradigm rule engine (neahtta/paradigms.py)                         *)
(*                                                                         *)
(* A dict of a rule definition, and a context list, is a sequence of       *)
(* (key, value) pairs in insertion order.  A value is a str (StrVal), a    *)
(* list of str (ListVal) or a bool (BoolVal).                              *)
(***************************************************************************)
BoolVal(b) == [bool |-> b]
IsStrVal(v) == "str" \in DOMAIN v
IsBoolVal(v) == "bool" \in DOMAIN v

Pair(key, value) == [k |-> key, v |-> value]
HasKey(pairs, key) == \E i \in 1..Len(pairs) : pairs[i].k = key
Keys(pairs) == {pairs[i].k : i \in 1..Len(pairs)}

\* dict(pairs): the last pair of a key gives its value
DictOf(pairs) ==
    [key \in Keys(pairs) |->
        pairs[CHOOSE i \in 1..Len(pairs) :
                 /\ pairs[i].k = key
                 /\ \A j \in (i + 1)..Len(pairs) : pairs[j].k # key].v]

\* what a comparator returns: (truth, context), or the exception it raised
Eval(truth, context) == [raised |-> FALSE, truth |-> truth, context |-> context]

\* DEFAULT_RULES
DefaultLemmaXPath == ".//l/text()"

\* the lexicon node: None, or an <e> element, of which the model keeps the
\* string each XPath expression extracts from it
NoNode == [isnone |-> TRUE]
Element(attrs) == [isnone |-> FALSE, attrs |-> attrs]

\* etree.XPath("string(normalize-space(expr))")(node): the empty str when the
\* expression selects nothing
XPathString(n, expr) == IF expr \in DOMAIN n.attrs THEN n.attrs[expr] ELSE <<>>

\* the cmp chosen by TagRule.__init__ and TagSetRule.__init__ for a str or a
\* list value
CmpValue(x, y) == IF IsStrVal(y) THEN x = y.str ELSE InList(x, y.list)

\* NullRule.compare
NullRule_compare == Eval(FALSE, <<>>)

\* the pairs (key, xs[i]) of the indices i for which hit[i], in order
MatchedPairs(key, xs, hit) ==
    LET F[i \in 0..Len(xs)] ==
            IF i = 0 THEN <<>>
            ELSE IF hit[i] THEN Append(F[i - 1], Pair(key, StrVal(xs[i]))) ELSE F[i - 1]
    IN  F[Len(xs)]

\* TagRule.compare: a tag that is neither a str nor a list leaves the rule
\* without cmp
TagRule_compare(c, lemmas) ==
    IF IsBoolVal(c.tag) THEN
        IF Len(lemmas) = 0 THEN Eval(FALSE, <<>>) ELSE Raised("AttributeError")
    ELSE LET xs == [i \in 1..Len(lemmas) |-> lemmas[i].tag.tag_string]
             hit == [i \in 1..Len(lemmas) |-> CmpValue(xs[i], c.tag)]
         IN  Eval(\E i \in 1..Len(lemmas) : hit[i], MatchedPairs("tag", xs, hit))

\* TagSetRule.compare: lemma.tag[tagset] is a part of the tag or None, and
\* raises IndexError for an undeclared tagset
TagSetRule_compare(c, lemmas, sets) ==
    LET got == [i \in 1..Len(lemmas) |-> TagGetItem(lemmas[i].tag, sets, c.tagset)]
    IN  IF \E i \in 1..Len(lemmas) : got[i].raised THEN Raised("IndexError")
        ELSE LET xs == [i \in 1..Len(lemmas) |-> got[i].val]
                 hit == [i \in 1..Len(lemmas) |->
                            IF IsBoolVal(c.value) THEN xs[i] # PyNone
                            ELSE CmpValue(xs[i], c.value)]
             IN  Eval(\E i \in 1..Len(lemmas) : hit[i], MatchedPairs(c.tagset, xs, hit))

\* LexiconRuleSet.__init__: self.xpath is lex_rules["XPATH"] updated with
\* DEFAULT_RULES
XPathRules(lex) ==
    LET given == IF HasKey(lex, "XPATH") THEN DictOf(lex)["XPATH"].dict ELSE <<>>
    IN  IF HasKey(given, "lemma")
        THEN [i \in 1..Len(given) |->
                 IF given[i].k = "lemma" THEN Pair("lemma", DefaultLemmaXPath) ELSE given[i]]
        ELSE Append(given, Pair("lemma", DefaultLemmaXPath))

LexiconRuleSet(lex) ==
    [kind |-> "lexicon",
     xpath |-> XPathRules(lex),
     comps |-> SelectSeq(lex, LAMBDA p : p.k # "XPATH")]

\* LexiconRuleSet.extract_context, for a node that is not None: an empty
\* extracted str becomes False
extract_context(c, n) ==
    [i \in 1..Len(c.xpath) |->
        LET s == XPathString(n, c.xpath[i].v)
        IN  Pair(c.xpath[i].k, IF Len(s) = 0 THEN BoolVal(FALSE) ELSE StrVal(s))]

\* LexRule.compare: (truth, (key, val))
LexRule_compare(rule, xpath_context) ==
    LET d == DictOf(xpath_context)
        x == IF rule.k \in DOMAIN d THEN d[rule.k] ELSE BoolVal(FALSE)
    IN  IF IsBoolVal(x)
        THEN [truth |-> FALSE, context |-> Pair(rule.k, StrVal(<<>>))]
        ELSE [truth |-> IF IsBoolVal(rule.v) THEN rule.v.bool = TRUE
                        ELSE CmpValue(x.str, rule.v),
              context |-> Pair(rule.k, x)]

\* a plausible slip: compare does not test the node and relies on
\* extract_context, which gives an empty context for None
LexiconRuleSet_compare_unguarded(c, n) ==
    LET xpath_context == IF n.isnone THEN <<>> ELSE extract_context(c, n)
        evals == [i \in 1..Len(c.comps) |-> LexRule_compare(c.comps[i], xpath_context)]
        passed[i \in 0..Len(evals)] ==
            IF i = 0 THEN <<>>
            ELSE IF evals[i].truth THEN Append(passed[i - 1], evals[i].context)
            ELSE passed[i - 1]
    IN  Eval(\A i \in 1..Len(evals) : evals[i].truth,
             passed[Len(evals)] \o xpath_context)

\* LexiconRuleSet.compare
LexiconRuleSet_compare(c, n) ==
    IF n.isnone THEN Eval(FALSE, <<>>)
    ELSE LET xpath_context == extract_context(c, n)
             evals == [i \in 1..Len(c.comps) |-> LexRule_compare(c.comps[i], xpath_context)]
             passed[i \in 0..Len(evals)] ==
                 IF i = 0 THEN <<>>
                 ELSE IF evals[i].truth THEN Append(passed[i - 1], evals[i].context)
                 ELSE passed[i - 1]
         IN  Eval(\A i \in 1..Len(evals) : evals[i].truth,
                  passed[Len(evals)] \o xpath_context)

\* the comparators
NullRule == [kind |-> "null"]
TagRule(value) == [kind |-> "tag", tag |-> value]
TagSetRule(tagset, value) == [kind |-> "tagset", tagset |-> tagset, value |-> value]

\* rule_def.get(key, {}) for the dicts 'morphology' and 'lexicon'
RuleDefGet(rule_def, key) == IF key \in DOMAIN rule_def THEN rule_def[key] ELSE <<>>

\* the rule definition as ParadigmRuleSet.__init__ leaves it: morph.pop("tag")
\* and self.xpath.update(DEFAULT_RULES) act on the dicts of rule_def
RuleDefAfterInit(rule_def) ==
    [key \in DOMAIN rule_def |->
        IF key = "morphology"
        THEN SelectSeq(rule_def[key], LAMBDA p : p.k # "tag")
        ELSE IF key = "lexicon"
        THEN [i \in 1..Len(rule_def[key]) |->
                 IF rule_def[key][i].k = "XPATH"
                 THEN Pair("XPATH", [dict |-> XPathRules(rule_def[key])])
                 ELSE rule_def[key][i]]
        ELSE rule_def[key]]

\* ParadigmRuleSet.__init__: '"tag" in morph' raises TypeError when the
\* definition has a lexicon and no morphology
ParadigmRuleSetInit(rule_def) ==
    LET lex == RuleDefGet(rule_def, "lexicon")
        morph == RuleDefGet(rule_def, "morphology")
        tagsetRules == SelectSeq(morph, LAMBDA p : p.k # "tag")
    IN  IF Len(lex) = 0 /\ Len(morph) = 0
        THEN Returned([rule_def |-> rule_def,
                       comps |-> <<NullRule, LexiconRuleSet(<<>>)>>])
        ELSE IF "morphology" \notin DOMAIN rule_def THEN Raised("TypeError")
        ELSE Returned(
               [rule_def |-> RuleDefAfterInit(rule_def),
                comps |->
                    (IF HasKey(morph, "tag") THEN <<TagRule(DictOf(morph)["tag"])>> ELSE <<>>)
                    \o [i \in 1..Len(tagsetRules) |->
                           TagSetRule(tagsetRules[i].k, tagsetRules[i].v)]
                    \o <<LexiconRuleSet(lex)>>])

\* comp.compare(node, analyses)
Compare(c, n, lemmas, sets) ==
    IF c.kind = "null" THEN NullRule_compare
    ELSE IF c.kind = "tag" THEN TagRule_compare(c, lemmas)
    ELSE IF c.kind = "tagset" THEN TagSetRule_compare(c, lemmas, sets)
    ELSE LexiconRuleSet_compare(c, n)

\* ParadigmRuleSet.evaluate: truth is all(...), the context is the dict of
\* the pairs of the comparators that passed
evaluate(condition, n, lemmas, sets) ==
    LET evals == [i \in 1..Len(condition.comps) |->
                     Compare(condition.comps[i], n, lemmas, sets)]
        contexts[i \in 0..Len(evals)] ==
            IF i = 0 THEN <<>>
            ELSE IF evals[i].truth THEN contexts[i - 1] \o evals[i].context
            ELSE contexts[i - 1]
    IN  IF \E i \in 1..Len(evals) : evals[i].raised
        THEN Raised(evals[CHOOSE i \in 1..Len(evals) :
                            /\ evals[i].raised
                            /\ \A j \in 1..(i - 1) : ~evals[j].raised].exc)
        ELSE Eval(\A i \in 1..Len(evals) : evals[i].truth,
                  DictOf(contexts[Len(evals)]))

\* a plausible slip: an unstable sort, which puts the later of two matches of
\* equal count first
SortedByCount_unstable(matches) ==
    LET F[n \in 0..Len(matches)] ==
            IF n = 0 THEN <<>>
            ELSE LET m == matches[n]
                     pos == Cardinality({i \in 1..(n - 1) : F[n - 1][i].count > m.count})
                 IN  SubSeq(F[n - 1], 1, pos) \o <<m>> \o SubSeq(F[n - 1], pos + 1, n - 1)
    IN  F[Len(matches)]

\* sorted(possible_matches, key=itemgetter(0), reverse=True): descending by
\* count, matches of equal count in their original order
SortedByCount(matches) ==
    LET F[n \in 0..Len(matches)] ==
            IF n = 0 THEN <<>>
            ELSE LET m == matches[n]
                     pos == Cardinality({i \in 1..(n - 1) : F[n - 1][i].count >= m.count})
                 IN  SubSeq(F[n - 1], 1, pos) \o <<m>> \o SubSeq(F[n - 1], pos + 1, n - 1)
    IN  F[Len(matches)]

\* the loop of get_paradigm over the rules: possible_matches holds one entry
\* per rule whose condition is true, in the order of the rules; an exception
\* of evaluate is raised again and ends the loop
PossibleMatches(table, n, lemmas, sets) ==
    LET F[i \in 0..Len(table)] ==
            IF i = 0 THEN Returned(<<>>)
            ELSE IF F[i - 1].raised THEN F[i - 1]
            ELSE CHOOSE next \in
                    { IF e.raised THEN Raised(e.exc)
                      ELSE IF e.truth
                      THEN Returned(Append(F[i - 1].val,
                                           [count |-> Cardinality(DOMAIN e.context),
                                            context |-> e.context,
                                            template |-> table[i].template,
                                            path |-> table[i].path]))
                      ELSE F[i - 1] :
                      e \in {evaluate(table[i].condition, n, lemmas, sets)} } : TRUE
    IN  F[Len(table)]

\* template.render(**template_context) of the first of the sorted matches,
\* kept as the pair (template, template_context); False without a match
Rendered(possible_matches, n, lemmas) ==
    IF Len(possible_matches) > 0
    THEN [template |-> possible_matches[1].template,
          template_context |->
             [key \in DOMAIN possible_matches[1].context \cup {"lexicon", "analyses"} |->
                 IF key = "lexicon" THEN n
                 ELSE IF key = "analyses" THEN lemmas
                 ELSE possible_matches[1].context[key]]]
    ELSE BoolVal(FALSE)

\* ParadigmConfig.get_paradigm(language, node, analyses), table being
\* paradigm_rules.get(language, [])
get_paradigm(table, n, lemmas, sets) ==
    CHOOSE result \in
        { IF found.raised THEN found
          ELSE Returned(Rendered(SortedByCount(found.val), n, lemmas)) :
          found \in {PossibleMatches(table, n, lemmas, sets)} } : TRUE

(***************************************************************************)
(* get_paradigm on drawn rule tables, nodes and analyses                   *)
(***************************************************************************)
MaxRules == 3

s_Pl == <<"P", "l">>
s_Plc == <<"P", "l", "c">>
SemTypeXPath == ".//l/@sem_type"

\* the tagsets of the language; the rule files name declared tagsets only
ts_paradigm ==
    [pos |-> <<Literal(s_V), Literal(s_N)>>, number |-> <<Literal(s_Sg), Literal(s_Pl)>>]

\* parsed YAML rule definitions
rd_verb == [name |-> "verb", morphology |-> <<Pair("pos", StrVal(s_V))>>]
rd_verb_place ==
    [name |-> "verb-place",
     morphology |-> <<Pair("pos", StrVal(s_V))>>,
     lexicon |-> <<Pair("XPATH", [dict |-> <<Pair("sem_type", SemTypeXPath)>>]),
                   Pair("sem_type", StrVal(s_Plc))>>]
rd_verb_tag ==
    [name |-> "verb-tag",
     morphology |-> <<Pair("tag", ListVal(<<s_bi_V_IV>>)), Pair("pos", ListVal(<<s_V>>))>>]
rd_noun ==
    [name |-> "noun",
     morphology |-> <<Pair("pos", ListVal(<<s_N, s_A>>)), Pair("number", BoolVal(TRUE))>>]
rd_any == [name |-> "any", morphology |-> <<Pair("pos", BoolVal(TRUE))>>]
rd_empty == [name |-> "empty"]
RuleDefs == {rd_verb, rd_verb_place, rd_verb_tag, rd_noun, rd_any, rd_empty}

\* parse_paradigm_string: the rule of the i-th file read for the language
ParsedRule(rule_def, i) ==
    [condition |-> ParadigmRuleSetInit(rule_def).val,
     template |-> [file |-> i],
     name |-> rule_def.name,
     path |-> [file |-> i]]

\* read_paradigm_directory: paradigm_rules[language], in the order read
ReadParadigms(defs) == [i \in 1..Len(defs) |-> ParsedRule(defs[i], i)]

Nodes ==
    { NoNode,
      Element((DefaultLemmaXPath :> s_bi) @@ (SemTypeXPath :> s_Plc)),
      Element(DefaultLemmaXPath :> s_ba) }

\* the Lemma objects of the analyses
lemma_V == LemmaInit(Split(s_bi_V_IV, Plus), StrVal(s_bi), EmptyDict, ts_paradigm).val
lemma_N == LemmaInit(Split(a_N, Plus), StrVal(s_ba), EmptyDict, ts_paradigm).val
LemmaLists == {<<>>, <<lemma_V>>, <<lemma_N>>, <<lemma_N, lemma_V>>, <<lemma_V, lemma_V>>}

InitParadigm ==
    /\ pc = "start"
    /\ \E defs \in SeqsOf(RuleDefs, 0, MaxRules) : rules = ReadParadigms(defs)
    /\ node \in Nodes
    /\ analyses \in LemmaLists
    /\ analyses_in = analyses
    /\ tagsets = ts_paradigm
    /\ options = EmptyDict
    /\ ret = Returned(PyNone)
    /\ form = <<>>
    /\ lookups = <<>>
    /\ flags = <<>>
    /\ tag = <<>>
    /\ proc = <<>>
    /\ clock = 0
    /\ NoService

GetParadigm ==
    /\ pc = "start"
    /\ ret' = get_paradigm(rules, node, analyses, tagsets)
    /\ pc' = "get_paradigm"
    /\ UNCHANGED <<form, analyses_in, analyses, lookups, tagsets, options, flags, tag,
                   paradigmVars, serviceVars, execVars>>

\* condition.evaluate(node, analyses) of one rule of the table
Evaluate ==
    /\ pc = "start"
    /\ \E i \in 1..Len(rules) :
          ret' = evaluate(rules[i].condition, node, analyses, tagsets)
    /\ pc' = "evaluate"
    /\ UNCHANGED <<form, analyses_in, analyses, lookups, tagsets, options, flags, tag,
                   paradigmVars, serviceVars, execVars>>

NextParadigm == GetParadigm \/ Evaluate

SpecParadigm == InitParadigm /\ [][NextParadigm]_vars

\* the rules of the table whose condition is true for (node, analyses), and
\* the number of keys of their context
MatchingRules ==
    {i \in 1..Len(rules) : evaluate(rules[i].condition, node, analyses, tagsets).truth}
ContextSize(i) ==
    Cardinality(DOMAIN evaluate(rules[i].condition, node, analyses, tagsets).context)
MostSpecific ==
    CHOOSE i \in MatchingRules :
        \A j \in MatchingRules :
            \/ ContextSize(j) < ContextSize(i)
            \/ ContextSize(j) = ContextSize(i) /\ i <= j

\* C6: get_paradigm renders the template of a matching rule with the largest
\* context size, the one loaded earliest among those of that size, and
\* returns False when no rule matches
C6_MostSpecificRule ==
    pc = "get_paradigm" =>
        /\ ~ret.raised
        /\ IF MatchingRules = {} THEN ret.val = BoolVal(FALSE)
           ELSE /\ "template" \in DOMAIN ret.val
                /\ ret.val.template = rules[MostSpecific].template

\* a smaller match loaded first, then two matches of the largest size: the
\* first of the two is rendered
C6_Witness ==
    /\ pc = "get_paradigm"
    /\ Len(rules) = 3
    /\ MatchingRules = {1, 2, 3}
    /\ ContextSize(1) < ContextSize(2)
    /\ ContextSize(2) = ContextSize(3)
    /\ "template" \in DOMAIN ret.val
    /\ ret.val.template = rules[2].template

\* C22: for node = None the lexicon rule set of every rule compares as
\* (False, []), evaluate is false for every rule and every list of analyses,
\* and get_paradigm selects no rule.
C22_NullNodeNeverMatches ==
    node = NoNode =>
        /\ \A i \in 1..Len(rules) :
              LET comps == rules[i].condition.comps
              IN  LexiconRuleSet_compare(comps[Len(comps)], node) = Eval(FALSE, <<>>)
        /\ pc = "evaluate" => (~ret.raised /\ ~ret.truth)
        /\ pc = "get_paradigm" => ret = Returned(BoolVal(FALSE))

\* get_paradigm called without a node, on a table whose first rule asks for
\* a verb, and with the analysis of a verb: no rule is selected
C22_Witness ==
    /\ pc = "get_paradigm"
    /\ node = NoNode
    /\ Len(rules) > 0
    /\ rules[1].name = "verb"
    /\ analyses = <<lemma_V>>
    /\ ret = Returned(BoolVal(FALSE))


(***************************************************************************)
(* XFST._exec: the analyzer subprocess of a pipe-backed lookup             *)
(***************************************************************************)
MaxCalls == 3

\* _exec(self, _input, cmd, timeout=5)
DefaultTimeout == 5

\* what the analyzer may have written when it exits
Outputs == {<<>>, a_N}

\* the subprocess spawned by the call in progress (the last one spawned)
CurrentProc == proc[Len(proc)]

InitExec ==
    /\ pc = "start"
    /\ proc = <<>>
    /\ clock = 0
    /\ NoService
    /\ ret = Returned(PyNone)
    /\ form \in Forms
    /\ analyses_in = <<>>
    /\ analyses = <<>>
    /\ lookups = <<>>
    /\ tagsets = <<>>
    /\ options = <<>>
    /\ flags = <<>>
    /\ tag = <<>>
    /\ rules = <<>>
    /\ node = PyNone

\* subprocess.Popen(...) succeeds; communicate(_input, timeout) starts waiting
Popen ==
    /\ pc \in {"start", "returned", "raised"}
    /\ Len(proc) < MaxCalls
    /\ proc' = Append(proc, [state |-> "running", timed_out |-> FALSE])
    /\ clock' = 0
    /\ pc' = "communicate"
    /\ UNCHANGED <<form, analyses_in, analyses, lookups, tagsets, options, flags, tag,
                   paradigmVars, serviceVars, ret>>

\* subprocess.Popen raises OSError, re-raised as Exception: nothing was spawned
PopenFails ==
    /\ pc \in {"start", "returned", "raised"}
    /\ Len(proc) < MaxCalls
    /\ ret' = Raised("Exception")
    /\ pc' = "raised"
    /\ UNCHANGED <<form, analyses_in, analyses, lookups, tagsets, options, flags, tag,
                   paradigmVars, serviceVars, execVars>>

\* a second passes while communicate waits
Tick ==
    /\ pc = "communicate"
    /\ clock < DefaultTimeout
    /\ clock' = clock + 1
    /\ UNCHANGED <<pc, form, analyses_in, analyses, lookups, tagsets, options, flags, tag,
                   paradigmVars, serviceVars, ret, proc>>

\* a running subprocess exits of its own accord, whether or not a call still
\* waits for it
ProcessExits ==
    /\ \E i \in 1..Len(proc) :
          /\ proc[i].state = "running"
          /\ proc' = [proc EXCEPT ![i].state = "exited"]
    /\ UNCHANGED <<pc, form, analyses_in, analyses, lookups, tagsets, options, flags, tag,
                   paradigmVars, serviceVars, ret, clock>>

\* communicate returns (output, err) once the subprocess has exited
CommunicateReturns ==
    /\ pc = "communicate"
    /\ CurrentProc.state = "exited"
    /\ \E out \in Outputs : ret' = Returned([output |-> out, err |-> <<>>])
    /\ pc' = "returned"
    /\ UNCHANGED <<form, analyses_in, analyses, lookups, tagsets, options, flags, tag,
                   paradigmVars, serviceVars, execVars>>

\* communicate raises TimeoutExpired when the timeout has passed and the
\* subprocess has not exited; _exec has no handler for it, so it leaves _exec
\* with the subprocess as it is
CommunicateTimeout ==
    /\ pc = "communicate"
    /\ clock = DefaultTimeout
    /\ CurrentProc.state = "running"
    /\ proc' = [proc EXCEPT ![Len(proc)].timed_out = TRUE]
    /\ ret' = Raised("TimeoutExpired")
    /\ pc' = "raised"
    /\ UNCHANGED <<form, analyses_in, analyses, lookups, tagsets, options, flags, tag,
                   paradigmVars, serviceVars, clock>>

NextExec ==
    \/ Popen
    \/ PopenFails
    \/ Tick
    \/ ProcessExits
    \/ CommunicateReturns
    \/ CommunicateTimeout

SpecExec == InitExec /\ [][NextExec]_vars

\* C10: once the timeout of a call has been surfaced to the caller, the
\* subprocess of that call is not running
C10_KilledOnTimeout ==
    \A i \in 1..Len(proc) : proc[i].timed_out => proc[i].state # "running"

\* the timeout of a call has been surfaced
C10_TimeoutSurfaced ==
    /\ pc = "raised"
    /\ ret = Raised("TimeoutExpired")
    /\ CurrentProc.timed_out

(***************************************************************************)
(* XFST.clean and Morphology.generate                                      *)
(*                                                                         *)
(* The analyzer's answer is kept as chunks of lines, a line being the      *)
(* fields that tag_processor splits at the tabs: a chunk is                *)
(* [input, lines], a line [form, weight], weight a list that is empty when *)
(* the line has no third field.                                            *)
(***************************************************************************)
NoneVal == [none |-> TRUE]

\* the characters of a weight, in code point order
WeightChars == <<".", "0", "1", "2", "3", "4", "5", "6", "7", "8", "9">>
Ord(c) == IndexOf(WeightChars, c)

\* a < b for two str: Python compares them character by character
StrLess(a, b) ==
    \E k \in 1..(Min2(Len(a), Len(b)) + 1) :
        /\ \A j \in 1..(k - 1) : a[j] = b[j]
        /\ \/ k > Len(a) /\ k <= Len(b)
           \/ k <= Len(a) /\ k <= Len(b) /\ Ord(a[k]) < Ord(b[k])

\* min(weights) for a non-empty list of str
StrMin(ws) ==
    ws[CHOOSE i \in 1..Len(ws) : \A j \in 1..Len(ws) : ~StrLess(ws[j], ws[i])]

\* XFST.clean for one chunk: (lemma, analyses, weights); a weight is appended
\* only for the lines that have one
clean_chunk(chunk) ==
    LET W[i \in 0..Len(chunk.lines)] ==
            IF i = 0 THEN <<>> ELSE W[i - 1] \o chunk.lines[i].weight
    IN  [surface |-> chunk.input,
         analyses |-> [i \in 1..Len(chunk.lines) |-> chunk.lines[i].form],
         weights |-> W[Len(chunk.lines)]]

\* XFST.clean
clean(chunks) == [i \in 1..Len(chunks) |-> clean_chunk(chunks[i])]

\* generate, lines 1091-1093: the indexes i of weights with weights[i] = min(weights),
\* 0-based as in the code
MinWeightIndexes(weights) ==
    SelectSeq([i \in 1..Len(weights) |-> i - 1],
              LAMBDA i : weights[i + 1] = StrMin(weights))

\* generate, lines 1094-1105: the forms at the indexes, or all the forms when
\* there is no index
UpdatedForms(block) ==
    LET idxs == MinWeightIndexes(block.weights)
    IN  IF Len(idxs) > 0
        THEN [k \in 1..Len(idxs) |-> block.analyses[idxs[k] + 1]]
        ELSE block.analyses

sPlusQuestion == Plus \o sQuestion

\* generate, lines 1107-1129: (parts, forms) of one block, forms being False
\* when one of them holds '+?'
Reformatted(block, opts) ==
    [parts |-> splitAnalysis(block.surface, opts, TRUE),
     forms |-> IF \E i \in 1..Len(UpdatedForms(block)) :
                     Contains(UpdatedForms(block)[i], sPlusQuestion)
               THEN BoolVal(FALSE)
               ELSE ListVal(UpdatedForms(block))]

\* what generate logs: one entry for each form holding '+?', and a GENERATE
\* entry when nothing was generated
GenerateLog(res) ==
    LET U[i \in 0..Len(res)] ==
            IF i = 0 THEN <<>>
            ELSE U[i - 1] \o [k \in 1..Len(SelectSeq(UpdatedForms(res[i]),
                                   LAMBDA f : Contains(f, sPlusQuestion))) |-> "unknown"]
    IN  U[Len(res)] \o (IF Len(res) = 0 THEN <<"GENERATE">> ELSE <<>>)

\* Morphology.generate(lemma, tagsets, node, pregenerated): answer is what
\* tool.inverselookup does, the parsed chunks or the exception of _exec.
\* invoked tells whether the inverse lookup was called.
generate(pregenerated, answer, opts) ==
    IF IsList(pregenerated) /\ Len(pregenerated.list) > 0
    THEN [raised |-> FALSE, invoked |-> FALSE, log |-> <<>>,
          val |-> [forms |-> pregenerated.list,
                   raw_output |-> [tagged |-> "pregenerated"],
                   raw_errors |-> <<>>]]
    ELSE IF answer.raised
    THEN [raised |-> TRUE, invoked |-> TRUE, log |-> <<>>, exc |-> answer.exc]
    ELSE [raised |-> FALSE, invoked |-> TRUE, log |-> GenerateLog(clean(answer.val)),
          val |-> [forms |-> [i \in 1..Len(answer.val) |->
                                 Reformatted(clean(answer.val)[i], opts)],
                   raw_output |-> [text |-> answer.val],
                   raw_errors |-> <<>>]]

(***************************************************************************)
(* Requests: lemmatize and generate with the three outcomes of _exec       *)
(***************************************************************************)
MaxLines == 3

\* XFST._exec: the (output, err) of the subprocess, or the exception that
\* leaves it; answer stands for the parsed output
exec(outcome, answer) ==
    IF outcome = "spawn fails" THEN Raised("Exception")
    ELSE IF outcome = "times out" THEN Raised("TimeoutExpired")
    ELSE Returned(answer)

\* XFST.lookup and XFST.inverselookup_by_string: what _exec raises leaves them
lookup(outcome, answer) == exec(outcome, answer)
inverselookup(outcome, answer) == exec(outcome, answer)

\* Morphology.morph_lemmatize with its call of tool.lookup([form])
lemmatize(wordform, looked_up, kw, opts, sets) ==
    IF looked_up.raised THEN {Failed(looked_up.exc, 0)}
    ELSE morph_lemmatize(wordform, looked_up.val, kw, opts, sets)

w_9 == <<"9", ".", "0">>
w_10 == <<"1", "0", ".", "0">>
f_1 == <<"f", "1">>
f_2 == <<"f", "2">>
f_3 == <<"f", "3">>
f_Unknown == a_N \o sPlusQuestion

Line(f, weight) == [form |-> f, weight |-> weight]
LineVocab ==
    {Line(f_1, <<>>), Line(f_1, <<w_10>>), Line(f_2, <<w_9>>), Line(f_3, <<w_9>>),
     Line(f_Unknown, <<>>)}

Chunk(input, lines) == [input |-> input, lines |-> lines]
c_Tail == Chunk(a_N, <<Line(f_2, <<>>)>>)

\* the answers of the inverse analyzer: no chunk, or a drawn chunk and
\* possibly a second one
Answers ==
    {<<>>} \cup {<<Chunk(a_N, ls)>> \o t :
                    ls \in SeqsOf(LineVocab, 1, MaxLines), t \in {<<>>, <<c_Tail>>}}

p_Entry == [parts |-> <<s_ba, s_N>>, forms |-> ListVal(<<f_1>>)]
Pregenerated == {NoneVal, ListVal(<<>>), ListVal(<<p_Entry>>)}

kw_default ==
    [split_compounds |-> FALSE, non_compound_only |-> FALSE, no_derivations |-> FALSE]

Requests ==
    {[call |-> "lemmatize", kw |-> kw_default]}
    \cup {[call |-> "generate", pregenerated |-> p] : p \in Pregenerated}

InitRequest ==
    /\ pc = "start"
    /\ flags \in Requests
    /\ form \in Forms
    /\ lookups \in IF flags.call = "lemmatize" THEN SeqsOf(BlockVocab, 0, MaxBlocks)
                   ELSE Answers
    /\ tagsets = ts_plain
    /\ options = opt_sme
    /\ ret = Returned(PyNone)
    /\ analyses_in = <<>>
    /\ analyses = <<>>
    /\ tag = <<>>
    /\ rules = <<>>
    /\ node = PyNone
    /\ proc = <<>>
    /\ clock = 0
    /\ NoService

\* the subprocess of the request after _exec: exited when it answered, still
\* running when communicate timed out, none when the spawn failed
ProcAfter(outcome) ==
    IF outcome = "spawn fails" THEN <<>>
    ELSE IF outcome = "times out" THEN <<[state |-> "running", timed_out |-> TRUE]>>
    ELSE <<[state |-> "exited", timed_out |-> FALSE]>>

\* lemmatize(form), _exec ending as outcome says
LemmatizeWith(outcome) ==
    /\ pc = "start"
    /\ flags.call = "lemmatize"
    /\ ret' \in lemmatize(form, lookup(outcome, lookups), flags.kw, options, tagsets)
    /\ proc' = ProcAfter(outcome)
    /\ pc' = "lemmatize"
    /\ UNCHANGED <<form, analyses_in, analyses, lookups, tagsets, options, flags, tag,
                   paradigmVars, serviceVars, clock>>

\* generate(lemma, tagsets, pregenerated), _exec ending as outcome says if the
\* analyzer is asked
GenerateWith(outcome) ==
    /\ pc = "start"
    /\ flags.call = "generate"
    /\ ret' = generate(flags.pregenerated, inverselookup(outcome, lookups), options)
    /\ proc' = IF ret'.invoked THEN ProcAfter(outcome) ELSE <<>>
    /\ pc' = "generate"
    /\ UNCHANGED <<form, analyses_in, analyses, lookups, tagsets, options, flags, tag,
                   paradigmVars, serviceVars, clock>>

Lemmatize == LemmatizeWith("answers")
LemmatizeSpawnFails == LemmatizeWith("spawn fails")
LemmatizeTimesOut == LemmatizeWith("times out")
Generate == GenerateWith("answers")
GenerateSpawnFails == GenerateWith("spawn fails")
GenerateTimesOut == GenerateWith("times out")

NextRequest ==
    \/ Lemmatize
    \/ LemmatizeSpawnFails
    \/ LemmatizeTimesOut
    \/ Generate
    \/ GenerateSpawnFails
    \/ GenerateTimesOut

SpecRequest == InitRequest /\ [][NextRequest]_vars

\* the analyzer of the request failed: the spawn failed or the call timed out
AnalyzerFailed ==
    \/ LemmatizeSpawnFails \/ LemmatizeTimesOut
    \/ ((GenerateSpawnFails \/ GenerateTimesOut) /\ ret'.invoked)

\* C11: when the analyzer of a lemmatize or generate request cannot be
\* spawned or times out, no exception reaches the caller: the request returns
\* an empty result.
C11_FailureBecomesEmptyResult ==
    [][AnalyzerFailed =>
          /\ ~ret'.raised
          /\ (flags.call = "lemmatize" => ret'.val = <<>>)
          /\ (flags.call = "generate" => ret'.val.forms = <<>>)]_vars

\* a lemmatize request whose analyzer timed out, and the caller got the
\* TimeoutExpired of _exec
C11_TimeoutReachesCaller ==
    /\ pc = "lemmatize"
    /\ proc = <<[state |-> "running", timed_out |-> TRUE]>>
    /\ ret = Failed("TimeoutExpired", 0)

\* the value of a string of digits
RECURSIVE DigitsValue(_)
DigitsValue(d) ==
    IF Len(d) = 0 THEN 0
    ELSE 10 * DigitsValue(SubSeq(d, 1, Len(d) - 1)) + (Ord(d[Len(d)]) - Ord("0"))

RECURSIVE Pow10(_)
Pow10(k) == IF k = 0 THEN 1 ELSE 10 * Pow10(k - 1)

\* the digits of a weight before and after its point
IntDigits(w) == IF Contains(w, <<".">>) THEN Slice(w, 0, Find(w, <<".">>)) ELSE w
FracDigits(w) == IF Contains(w, <<".">>) THEN SliceFrom(w, Find(w, <<".">>) + 1) ELSE <<>>

\* the number a weight denotes, in units of 10^-k
Scaled(w, k) ==
    DigitsValue(IntDigits(w)) * Pow10(k) + DigitsValue(FracDigits(w)) * Pow10(k - Len(FracDigits(w)))

\* a <= b as numbers
NumLeq(a, b) ==
    LET k == Max2(Len(FracDigits(a)), Len(FracDigits(b)))
    IN  Scaled(a, k) <= Scaled(b, k)

\* the generate call returned the analyzer's answer
Generated == pc = "generate" /\ ~ret.raised /\ ret.invoked

AllWeighted(chunk) == \A k \in 1..Len(chunk.lines) : chunk.lines[k].weight # <<>>
NoneWeighted(chunk) == \A k \in 1..Len(chunk.lines) : chunk.lines[k].weight = <<>>
HasUnknownForm(chunk) ==
    \E k \in 1..Len(chunk.lines) : Contains(chunk.lines[k].form, sPlusQuestion)
FormsOf(lines) == [k \in 1..Len(lines) |-> lines[k].form]

\* the lines whose weight is numerically the smallest of the chunk
NumericallyLeast(chunk) ==
    SelectSeq(chunk.lines,
              LAMBDA l : \A k \in 1..Len(chunk.lines) :
                             NumLeq(l.weight[1], chunk.lines[k].weight[1]))

\* C13: for every block whose lines all carry a weight, generate keeps
\* exactly the forms of numerically smallest weight, in their order; for a
\* block without weights it keeps all the forms.
C13_NumericMinimumKept ==
    Generated =>
        \A i \in 1..Len(lookups) :
            /\ AllWeighted(lookups[i]) =>
                  ret.val.forms[i].forms = ListVal(FormsOf(NumericallyLeast(lookups[i])))
            /\ (NoneWeighted(lookups[i]) /\ ~HasUnknownForm(lookups[i])) =>
                  ret.val.forms[i].forms = ListVal(FormsOf(lookups[i].lines))

\* a block with the weights '10.0' and '9.0', of which generate kept the form
\* of weight '10.0'
C13_TenBeforeNine ==
    /\ Generated
    /\ lookups = <<Chunk(a_N, <<Line(f_1, <<w_10>>), Line(f_2, <<w_9>>)>>)>>
    /\ ret.val.forms[1].forms = ListVal(<<f_1>>)

\* C14: for a block in which a line has no weight, generate keeps every form,
\* whatever the weights of the other lines.
C14_PartlyWeightedKeepsAll ==
    Generated =>
        \A i \in 1..Len(lookups) :
            (~AllWeighted(lookups[i]) /\ ~HasUnknownForm(lookups[i])) =>
                ret.val.forms[i].forms = ListVal(FormsOf(lookups[i].lines))

\* a block whose first line has no weight and whose second has one, of which
\* generate kept the first form only
C14_SecondFormDropped ==
    /\ Generated
    /\ lookups = <<Chunk(a_N, <<Line(f_1, <<>>), Line(f_2, <<w_9>>)>>)>>
    /\ ret.val.forms[1].forms = ListVal(<<f_1>>)

\* C15: when generate is called with a pregenerated value other than None,
\* the inverse lookup is not invoked and the result is that value with the
\* raw output 'pregenerated' and empty raw errors.
C15_PregeneratedBypasses ==
    (pc = "generate" /\ flags.pregenerated # NoneVal) =>
        /\ ~ret.invoked
        /\ ~ret.raised
        /\ ret.val = [forms |-> flags.pregenerated.list,
                      raw_output |-> [tagged |-> "pregenerated"],
                      raw_errors |-> <<>>]

\* generate called with pregenerated=[] asked the analyzer and returned what
\* it generated
C15_EmptyListAsksAnalyzer ==
    /\ Generated
    /\ flags.pregenerated = ListVal(<<>>)
    /\ Len(ret.val.forms) > 0

(***************************************************************************)
(* GenerationOverrides: the post-generation processors                     *)
(***************************************************************************)
MaxRegistrations == 3

\* the functions that configuration modules register, and the languages
Processors == {"f", "g", "word_generation_context"}
Languages == {"sme", "sma"}

\* postgeneration_processors[lang] of a defaultdict(list), without inserting
Chain(reg, lang) == IF lang \in DOMAIN reg THEN reg[lang] ELSE <<>>

\* postgeneration_processors[lang] as the code evaluates it: a missing key is
\* inserted with an empty list
Touched(reg, lang) == [l \in DOMAIN reg \cup {lang} |-> Chain(reg, l)]

\* postgeneration_processors[language_iso].append(restrictor_function)
Appended(reg, lang, f) ==
    [l \in DOMAIN reg \cup {lang} |-> IF l = lang THEN Append(Chain(reg, l), f) ELSE Chain(reg, l)]

\* postgeneration_filter_for_iso(*language_isos)(restrictor_function)
RECURSIVE postgeneration_filter_for_iso(_, _, _)
postgeneration_filter_for_iso(reg, language_isos, f) ==
    IF Len(language_isos) = 0 THEN reg
    ELSE postgeneration_filter_for_iso(Appended(reg, Head(language_isos), f),
                                       Tail(language_isos), f)

Applied(chain, pass) == [k \in 1..Len(chain) |-> [f |-> chain[k], pass |-> pass]]

\* a plausible slip: the global pass runs before the language's chain
process_generation_output_global_first(reg, lang_code) ==
    Applied(SelectSeq(Chain(reg, "all"), LAMBDA f : ~InList(f, Chain(reg, lang_code))), "global")
    \o Applied(Chain(reg, lang_code), "language")

\* GenerationOverrides.process_generation_output, decorate: the processors
\* applied to the generated forms, in the order of their application
process_generation_output(reg, lang_code) ==
    Applied(Chain(reg, lang_code), "language")
    \o Applied(SelectSeq(Chain(reg, "all"), LAMBDA f : ~InList(f, Chain(reg, lang_code))), "global")

\* the number of registrations made
Registrations(reg) ==
    LET ls == <<"all", "sme", "sma">>
        N[i \in 0..3] == IF i = 0 THEN 0 ELSE N[i - 1] + Len(Chain(reg, ls[i]))
    IN  N[3] - 1

InitOverrides ==
    /\ pc = "start"
    /\ registry = InitialRegistry
    /\ ret = Returned(PyNone)
    /\ form \in Forms
    /\ analyses_in = <<>>
    /\ analyses = <<>>
    /\ lookups = <<>>
    /\ tagsets = <<>>
    /\ options = <<>>
    /\ flags = <<>>
    /\ tag = <<>>
    /\ rules = <<>>
    /\ node = PyNone
    /\ proc = <<>>
    /\ clock = 0
    /\ files = <<>>
    /\ tables = <<>>
    /\ threads = <<>>

\* a configuration module is imported: @postgeneration_filter_for_iso(*isos)
\* decorates a function
Register ==
    /\ \E isos \in SeqsOf(Languages \cup {"all"}, 1, 2) : \E f \in Processors :
          /\ Registrations(registry) + Len(isos) <= MaxRegistrations
          /\ registry' = postgeneration_filter_for_iso(registry, isos, f)
    /\ UNCHANGED <<pc, form, analyses_in, analyses, lookups, tagsets, options, flags, tag,
                   paradigmVars, ret, execVars, files, tables, threads>>

\* one call of the generate of a language's Morphology, wrapped by
\* process_generation_output
GenerateProcessed ==
    /\ \E lang \in Languages :
          /\ ret' = Returned([language |-> lang,
                              applied |-> process_generation_output(registry, lang)])
          /\ registry' = Touched(registry, lang)
    /\ pc' = "generate"
    /\ UNCHANGED <<form, analyses_in, analyses, lookups, tagsets, options, flags, tag,
                   paradigmVars, execVars, files, tables, threads>>

NextOverrides == Register \/ GenerateProcessed

SpecOverrides == InitOverrides /\ [][NextOverrides]_vars

\* the functions applied in one pass of a generate call, in order
PassOf(applied, pass) ==
    LET sel == SelectSeq(applied, LAMBDA a : a.pass = pass)
    IN  [k \in 1..Len(sel) |-> sel[k].f]

\* C16: in one generate call for language L the processors registered for L
\* are applied in registration order before any global processor; then the
\* global processors are applied in their order, except those that are also
\* in L's chain.
C16_LanguageChainThenGlobal ==
    [][GenerateProcessed =>
          LET lang == ret'.val.language
              applied == ret'.val.applied
              own == Chain(registry, lang)
              global == Chain(registry, "all")
          IN  /\ PassOf(applied, "language") = own
              /\ \A i, j \in 1..Len(applied) :
                    (applied[i].pass = "global" /\ applied[j].pass = "language") => j < i
              /\ PassOf(applied, "global")
                    = SelectSeq(global, LAMBDA f : \A k \in 1..Len(own) : own[k] # f)]_vars

\* a generate call for sme with two processors registered for sme, one of
\* them also in the global chain and there skipped, and a global one applied
C16_Witness ==
    /\ pc = "generate"
    /\ ret.val.language = "sme"
    /\ Chain(registry, "sme") = <<"f", "g">>
    /\ Chain(registry, "all") = <<"word_generation_context", "g">>
    /\ ret.val.applied = <<[f |-> "f", pass |-> "language"], [f |-> "g", pass |-> "language"],
                           [f |-> "word_generation_context", pass |-> "global"]>>

\* the times f is applied in a generate call
TimesApplied(applied, f) == Len(SelectSeq(applied, LAMBDA a : a.f = f))

\* the times f is in a chain
TimesRegistered(chain, f) == Len(SelectSeq(chain, LAMBDA g : g = f))

\* C17: after registrations in which a function was registered more than once
\* for a language, one generate call for that language applies it exactly once.
C17_RegistrationIdempotent ==
    [][GenerateProcessed =>
          \A f \in Processors :
              TimesRegistered(Chain(registry, ret'.val.language), f) > 1 =>
                  TimesApplied(ret'.val.applied, f) = 1]_vars

\* f was registered twice for sme and a generate call for sme applied it twice
C17_AppliedTwice ==
    /\ pc = "generate"
    /\ ret.val.language = "sme"
    /\ Chain(registry, "sme") = <<"f", "f">>
    /\ TimesApplied(ret.val.applied, "f") = 2

(***************************************************************************)
(* ParadigmConfig: reading the paradigm directory, and reloading it        *)
(*                                                                         *)
(* One language's directory.  A file is [path, kind, content, mtime]; its  *)
(* content is what the parsers look at: whether partition("--") leaves two *)
(* non-empty halves, whether the YAML half loads, the base paradigm that a *)
(* layout names, whether parse_table accepts the table.  The set of files  *)
(* and their contents stay as they are; a file's mtime may change.         *)
(***************************************************************************)
MaxFiles == 3
MaxTouches == 1

Content(sep, yaml, paradigm, table) ==
    [sep |-> sep, yaml |-> yaml, paradigm |-> paradigm, table |-> table]
c_ok == Content(TRUE, TRUE, "", TRUE)
c_nosep == Content(FALSE, TRUE, "", TRUE)
c_badyaml == Content(TRUE, FALSE, "", TRUE)
c_ref_a == Content(TRUE, TRUE, "a.paradigm", TRUE)
c_badtable == Content(TRUE, TRUE, "", FALSE)

File(path, kind, content) == [path |-> path, kind |-> kind, content |-> content, mtime |-> 1]
FileOrder ==
    <<File("a.paradigm", "paradigm", c_ok), File("b.paradigm", "paradigm", c_ok),
      File("n.paradigm", "paradigm", c_nosep), File("y.paradigm", "paradigm", c_badyaml),
      File("a.layout", "layout", c_ok), File("n.layout", "layout", c_nosep),
      File("r.layout", "layout", c_ref_a), File("t.layout", "layout", c_badtable)>>

\* os.walk: the directory's files of one kind
FilesOf(fs, kind) == SelectSeq(fs, LAMBDA f : f.kind = kind)

\* sys.exit
Exit == [exit |-> TRUE]
\* the parsed rule in a list, or no rule (the parser returned False)
Parsed(rule) == [exit |-> FALSE, rule |-> rule]

\* ParadigmConfig.parse_paradigm_string
parse_paradigm_string(f) ==
    IF ~f.content.sep THEN Parsed(<<>>)
    ELSE IF ~f.content.yaml THEN Exit
    ELSE Parsed(<<[path |-> f.path, updated |-> f.mtime]>>)

\* ParadigmConfig.parse_paradigm_layout_string
parse_paradigm_layout_string(f, paradigm_rules) ==
    IF ~f.content.sep THEN Parsed(<<>>)
    ELSE IF ~f.content.yaml THEN Exit
    ELSE IF f.content.paradigm # ""
              /\ \A i \in 1..Len(paradigm_rules) : paradigm_rules[i].path # f.content.paradigm
    THEN Exit
    ELSE IF ~f.content.table THEN Parsed(<<>>)
    ELSE Parsed(<<[path |-> f.path, updated |-> f.mtime]>>)

\* os.path.getmtime(path)
getmtime(fs, path) == fs[CHOOSE i \in 1..Len(fs) : fs[i].path = path].mtime

\* check_updates: some layout rule's file has another mtime than the rule
Stale(fs, layout_rules) ==
    \E i \in 1..Len(layout_rules) :
        getmtime(fs, layout_rules[i].path) # layout_rules[i].updated

\* a plausible slip: the rule is appended to the served table
append_in_place(tbls, table, local) == [tbls EXCEPT ![table] = local]

\* _lang_paradigms[lang].append(paradigm_rule): the served tables after the
\* rule was appended to the local table
append(tbls, table, local) == tbls

Idling == [pc |-> "idle", call |-> "", at |-> 0, local |-> <<>>]
Reading(call) == [pc |-> "paradigms", call |-> call, at |-> 0, local |-> <<>>]

InitReload ==
    /\ pc = "init"
    /\ files \in {SelectSeq(FileOrder, LAMBDA f : f \in S) :
                     S \in {T \in SUBSET {FileOrder[i] : i \in DOMAIN FileOrder} :
                               Cardinality(T) \in 1..MaxFiles}}
    /\ tables = [paradigm_rules |-> <<>>, paradigm_layout_rules |-> <<>>]
    /\ threads = <<Reading("__init__"), Idling>>
    /\ registry = InitialRegistry
    /\ ret = Returned([call |-> "", evaluated |-> <<>>])
    /\ form = <<>>
    /\ analyses_in = <<>>
    /\ analyses = <<>>
    /\ lookups = <<>>
    /\ tagsets = <<>>
    /\ options = <<>>
    /\ flags = <<>>
    /\ tag = <<>>
    /\ rules = <<>>
    /\ node = PyNone
    /\ proc = <<>>
    /\ clock = 0

\* the times a file of the directory was written again
Touches(fs) ==
    LET N[i \in 0..Len(fs)] == IF i = 0 THEN 0 ELSE N[i - 1] + (fs[i].mtime - 1)
    IN  N[Len(fs)]

\* a file of the directory is written again
Touch ==
    /\ pc # "exited"
    /\ Touches(files) < MaxTouches
    /\ \E i \in 1..Len(files) :
          files' = [files EXCEPT ![i].mtime = @ + 1]
    /\ UNCHANGED <<pc, form, analyses_in, analyses, lookups, tagsets, options, flags, tag,
                   paradigmVars, ret, execVars, registry, tables, threads>>

\* read_paradigm_directory, one turn of the loop over the .paradigm files
ReadParadigmFile ==
    /\ pc # "exited"
    /\ \E t \in DOMAIN threads :
          /\ threads[t].pc = "paradigms"
          /\ threads[t].at < Len(FilesOf(files, "paradigm"))
          /\ LET r == parse_paradigm_string(FilesOf(files, "paradigm")[threads[t].at + 1])
             IN  IF r.exit
                 THEN pc' = "exited" /\ UNCHANGED <<threads, tables>>
                 ELSE /\ threads' = [threads EXCEPT ![t].at = @ + 1, ![t].local = @ \o r.rule]
                      /\ tables' = append(tables, "paradigm_rules", threads'[t].local)
                      /\ UNCHANGED pc
    /\ UNCHANGED <<form, analyses_in, analyses, lookups, tagsets, options, flags, tag,
                   paradigmVars, ret, execVars, registry, files>>

\* self.paradigm_rules = _lang_paradigms
PublishParadigmRules ==
    /\ pc # "exited"
    /\ \E t \in DOMAIN threads :
          /\ threads[t].pc = "paradigms"
          /\ threads[t].at = Len(FilesOf(files, "paradigm"))
          /\ tables' = [tables EXCEPT !.paradigm_rules = threads[t].local]
          /\ threads' = [threads EXCEPT ![t].pc = "layouts", ![t].at = 0, ![t].local = <<>>]
    /\ UNCHANGED <<pc, form, analyses_in, analyses, lookups, tagsets, options, flags, tag,
                   paradigmVars, ret, execVars, registry, files>>

\* read_paradigm_directory, one turn of the loop over the .layout files
ReadLayoutFile ==
    /\ pc # "exited"
    /\ \E t \in DOMAIN threads :
          /\ threads[t].pc = "layouts"
          /\ threads[t].at < Len(FilesOf(files, "layout"))
          /\ LET r == parse_paradigm_layout_string(FilesOf(files, "layout")[threads[t].at + 1],
                                                   tables.paradigm_rules)
             IN  IF r.exit
                 THEN pc' = "exited" /\ UNCHANGED <<threads, tables>>
                 ELSE /\ threads' = [threads EXCEPT ![t].at = @ + 1, ![t].local = @ \o r.rule]
                      /\ tables' = append(tables, "paradigm_layout_rules", threads'[t].local)
                      /\ UNCHANGED pc
    /\ UNCHANGED <<form, analyses_in, analyses, lookups, tagsets, options, flags, tag,
                   paradigmVars, ret, execVars, registry, files>>

\* self.paradigm_layout_rules = _lang_paradigm_layouts, and the return of
\* read_paradigm_directory: to ParadigmConfig.__init__, after which requests
\* are served, or to get_paradigm_layout, which goes on to evaluate the rules
PublishLayoutRules ==
    /\ pc # "exited"
    /\ \E t \in DOMAIN threads :
          /\ threads[t].pc = "layouts"
          /\ threads[t].at = Len(FilesOf(files, "layout"))
          /\ tables' = [tables EXCEPT !.paradigm_layout_rules = threads[t].local]
          /\ threads' = [threads EXCEPT ![t] = Idling]
          /\ IF threads[t].call = "__init__"
             THEN pc' = "serving" /\ UNCHANGED ret
             ELSE /\ ret' = Returned([call |-> "get_paradigm_layout",
                                      evaluated |-> tables'.paradigm_layout_rules])
                  /\ UNCHANGED pc
    /\ UNCHANGED <<form, analyses_in, analyses, lookups, tagsets, options, flags, tag,
                   paradigmVars, execVars, registry, files>>

\* get_paradigm: the rules of the language are evaluated
GetParadigmServed ==
    /\ pc = "serving"
    /\ ret' = Returned([call |-> "get_paradigm", evaluated |-> tables.paradigm_rules])
    /\ UNCHANGED <<pc, form, analyses_in, analyses, lookups, tagsets, options, flags, tag,
                   paradigmVars, execVars, registry, files, tables, threads>>

\* get_paradigm_layout when check_updates finds no layout rule out of date
GetParadigmLayout ==
    /\ pc = "serving"
    /\ ~Stale(files, tables.paradigm_layout_rules)
    /\ ret' = Returned([call |-> "get_paradigm_layout",
                        evaluated |-> tables.paradigm_layout_rules])
    /\ UNCHANGED <<pc, form, analyses_in, analyses, lookups, tagsets, options, flags, tag,
                   paradigmVars, execVars, registry, files, tables, threads>>

\* get_paradigm_layout when check_updates finds a layout rule out of date:
\* the thread of the request enters read_paradigm_directory
GetParadigmLayoutReloads ==
    /\ pc = "serving"
    /\ Stale(files, tables.paradigm_layout_rules)
    /\ \E t \in DOMAIN threads :
          /\ threads[t].pc = "idle"
          /\ threads' = [threads EXCEPT ![t] = Reading("get_paradigm_layout")]
    /\ UNCHANGED <<pc, form, analyses_in, analyses, lookups, tagsets, options, flags, tag,
                   paradigmVars, ret, execVars, registry, files, tables>>

NextReload ==
    \/ Touch
    \/ ReadParadigmFile
    \/ PublishParadigmRules
    \/ ReadLayoutFile
    \/ PublishLayoutRules
    \/ GetParadigmServed
    \/ GetParadigmLayout
    \/ GetParadigmLayoutReloads

SpecReload == InitReload /\ [][NextReload]_vars

\* a resolution evaluates the rules of the step's ret'
Resolves ==
    \/ GetParadigmServed
    \/ GetParadigmLayout
    \/ /\ PublishLayoutRules
       /\ \E t \in DOMAIN threads :
             /\ threads[t].pc = "layouts"
             /\ threads[t].call = "get_paradigm_layout"
             /\ threads'[t].pc = "idle"

\* C18: a resolution, get_paradigm as well as get_paradigm_layout, never
\* evaluates a rule whose cached timestamp differs from the modification time
\* of its file: the directory is reloaded first.
C18_NoStaleRuleEvaluated ==
    [][Resolves =>
          \A i \in 1..Len(ret'.val.evaluated) :
              ret'.val.evaluated[i].updated = getmtime(files, ret'.val.evaluated[i].path)]_vars

\* get_paradigm evaluated the rule read from a.paradigm at mtime 1 while the
\* file has mtime 2
C18_StaleRuleEvaluated ==
    /\ pc = "serving"
    /\ ret.val.call = "get_paradigm"
    /\ \E i \in 1..Len(ret.val.evaluated) :
          /\ ret.val.evaluated[i] = [path |-> "a.paradigm", updated |-> 1]
          /\ getmtime(files, "a.paradigm") = 2

\* the paths of the rules of a table
Paths(table) == [i \in 1..Len(table) |-> table[i].path]

\* the paths of the files of a kind that the parsers turn into a rule
Loadable(kind) ==
    Paths(SelectSeq(FilesOf(files, kind),
                    LAMBDA f : f.content.sep /\ f.content.yaml /\ f.content.table))

\* some thread is inside read_paradigm_directory
Reloading == \E t \in DOMAIN threads : threads[t].pc # "idle"

\* C19: a reader that resolves while read_paradigm_directory is running
\* evaluates a complete table, one with a rule for every loadable file: the
\* table of before the reload or the one of after it, never one being filled.
C19_ReaderSeesCompleteTable ==
    [][(Resolves /\ Reloading) =>
          Paths(ret'.val.evaluated)
              = Loadable(IF ret'.val.call = "get_paradigm" THEN "paradigm" ELSE "layout")]_vars

\* get_paradigm evaluated both rules of the table of before the reload while
\* a reload has read one of the two .paradigm files
C19_Witness ==
    /\ pc = "serving"
    /\ ret.val.call = "get_paradigm"
    /\ Len(ret.val.evaluated) = 2
    /\ \E t \in DOMAIN threads :
          /\ threads[t].pc = "paradigms"
          /\ threads[t].call = "get_paradigm_layout"
          /\ Len(threads[t].local) = 1
          /\ tables.paradigm_rules = ret.val.evaluated
          /\ tables.paradigm_rules # threads[t].local

\* C20: read_paradigm_directory never completes with tables that lack a rule
\* for one of the files it found: a file that cannot be turned into a rule
\* aborts the process.
C20_NoPartialTable ==
    [][PublishLayoutRules =>
          \A i \in 1..Len(files) :
              \/ InList(files[i].path, Paths(tables'.paradigm_rules))
              \/ InList(files[i].path, Paths(tables'.paradigm_layout_rules))]_vars

\* the service serves requests with a table that has no rule for n.paradigm,
\* a file without '--'
C20_RuleMissing ==
    /\ pc = "serving"
    /\ \E i \in 1..Len(files) : files[i].path = "n.paradigm"
    /\ ~InList("n.paradigm", Paths(tables.paradigm_rules))
    /\ ret.val.call = "get_paradigm"

(***************************************************************************)
(* One rule: ParadigmRuleSet(rule_def), its evaluation, and the layout     *)
(* that names it as its base paradigm                                      *)
(***************************************************************************)
XPathSemType == Pair("XPATH", [dict |-> <<Pair("sem_type", SemTypeXPath)>>])
rd_lex_only ==
    [name |-> "lex-only", lexicon |-> <<XPathSemType, Pair("sem_type", StrVal(s_Plc))>>]
rd_lex_false ==
    [name |-> "lex-false",
     morphology |-> <<Pair("pos", StrVal(s_V))>>,
     lexicon |-> <<XPathSemType, Pair("sem_type", BoolVal(FALSE))>>]
rd_lex_true ==
    [name |-> "lex-true",
     morphology |-> <<Pair("pos", StrVal(s_V))>>,
     lexicon |-> <<XPathSemType, Pair("sem_type", BoolVal(TRUE))>>]
rd_verb_exact ==
    [name |-> "verb-exact",
     morphology |-> <<Pair("tag", StrVal(s_bi \o Plus \o s_V)), Pair("pos", StrVal(s_V))>>]
rd_tag_only == [name |-> "tag-only", morphology |-> <<Pair("tag", StrVal(s_bi_V_IV))>>]
RuleVocab ==
    {rd_verb, rd_verb_place, rd_verb_tag, rd_noun, rd_empty,
     rd_lex_only, rd_lex_false, rd_lex_true, rd_verb_exact, rd_tag_only}

\* ParadigmRuleSet(rule_def).evaluate(node, analyses)
Evaluated(rule_def, n, lemmas, sets) ==
    CHOOSE r \in {IF c.raised THEN c ELSE evaluate(c.val, n, lemmas, sets) :
                    c \in {ParadigmRuleSetInit(rule_def)}} : TRUE

\* parse_paradigm_layout_string: the condition of a layout that names a base
\* paradigm and has no morphology or lexicon of its own; base_def is the
\* rule_def of the base paradigm's condition, a truthy lexicon or morphology
\* of which is copied
LayoutCondition(layout_name, base_def) ==
    [key \in {"name"}
             \cup {k \in {"lexicon", "morphology"} : Len(RuleDefGet(base_def, k)) > 0} |->
        IF key = "name" THEN layout_name ELSE base_def[key]]

\* the base paradigm and its layout, both loaded and then evaluated:
\* (truth, context) of each, or the exception that ended the loading
BaseAndLayout(rule_def, n, lemmas, sets) ==
    CHOOSE r \in
        {IF base.raised THEN base
         ELSE CHOOSE q \in
                 {IF layout.raised THEN layout
                  ELSE Returned([base |-> evaluate(base.val, n, lemmas, sets),
                                 layout |-> evaluate(layout.val, n, lemmas, sets)]) :
                  layout \in {ParadigmRuleSetInit(
                                 LayoutCondition("layout", base.val.rule_def))}} : TRUE :
         base \in {ParadigmRuleSetInit(rule_def)}} : TRUE

\* the lexicon sub-rules of a rule definition
LexRules(rule_def) == SelectSeq(RuleDefGet(rule_def, "lexicon"), LAMBDA p : p.k # "XPATH")

InitRule ==
    /\ pc = "start"
    /\ \E rule_def \in RuleVocab : rules = <<rule_def>>
    /\ node \in Nodes
    /\ analyses \in LemmaLists
    /\ analyses_in = analyses
    /\ tagsets = ts_paradigm
    /\ options = EmptyDict
    /\ ret = Returned(PyNone)
    /\ form = <<>>
    /\ lookups = <<>>
    /\ flags = <<>>
    /\ tag = <<>>
    /\ proc = <<>>
    /\ clock = 0
    /\ NoService

\* the rule file is loaded and the rule evaluated on (node, analyses)
LoadAndEvaluate ==
    /\ pc = "start"
    /\ ret' = Evaluated(rules[1], node, analyses, tagsets)
    /\ rules' = IF ParadigmRuleSetInit(rules[1]).raised THEN rules
                ELSE <<RuleDefAfterInit(rules[1])>>
    /\ pc' = "evaluate"
    /\ UNCHANGED <<form, analyses_in, analyses, lookups, tagsets, options, flags, tag,
                   node, serviceVars, execVars>>

\* LexRule.compare of one lexicon sub-rule of the rule, on the context that
\* extract_context takes from a node
CompareLexRule ==
    /\ pc = "start"
    /\ ~node.isnone
    /\ \E i \in 1..Len(LexRules(rules[1])) :
          /\ ret' = Returned([rule |-> LexRules(rules[1])[i],
                              compared |-> LexRule_compare(
                                  LexRules(rules[1])[i],
                                  extract_context(LexiconRuleSet(rules[1].lexicon), node))])
    /\ pc' = "compare"
    /\ UNCHANGED <<form, analyses_in, analyses, lookups, tagsets, options, flags, tag,
                   paradigmVars, serviceVars, execVars>>

\* the rule file and a layout file naming it as base paradigm are loaded, and
\* both conditions evaluated on (node, analyses)
LoadLayoutOfBase ==
    /\ pc = "start"
    /\ ret' = BaseAndLayout(rules[1], node, analyses, tagsets)
    /\ rules' = IF ParadigmRuleSetInit(rules[1]).raised THEN rules
                ELSE <<RuleDefAfterInit(rules[1])>>
    /\ pc' = "layout"
    /\ UNCHANGED <<form, analyses_in, analyses, lookups, tagsets, options, flags, tag,
                   node, serviceVars, execVars>>

NextRule == LoadAndEvaluate \/ CompareLexRule \/ LoadLayoutOfBase

SpecRule == InitRule /\ [][NextRule]_vars

\* the str that the XPath expression of a lexicon sub-rule's key extracts
ExtractedValue(rule_def, key, n) ==
    XPathString(n, DictOf(XPathRules(rule_def.lexicon))[key])

\* C28: a LexRule with a boolean expectation b matches exactly when (the
\* extracted value is non-empty) equals b; an expectation of false matches
\* the entries whose value is absent or empty.
C28_BooleanExpectation ==
    (pc = "compare" /\ IsBoolVal(ret.val.rule.v)) =>
        ret.val.compared.truth
            = ((Len(ExtractedValue(rules[1], ret.val.rule.k, node)) > 0) = ret.val.rule.v.bool)

\* a LexRule expecting false compared on an entry without the value: no match
C28_FalseNeverMatches ==
    /\ pc = "compare"
    /\ ret.val.rule = Pair("sem_type", BoolVal(FALSE))
    /\ Len(ExtractedValue(rules[1], "sem_type", node)) = 0
    /\ ~ret.val.compared.truth

\* the rule definition has a lexicon section and no morphology section
LexiconOnly(rule_def) == "lexicon" \in DOMAIN rule_def /\ "morphology" \notin DOMAIN rule_def

\* C29: a rule definition with a lexicon section and no morphology section
\* loads without error, and evaluates to true exactly when all its lexicon
\* sub-rules pass on a node that is not None.
C29_LexiconOnlyRuleLoads ==
    (pc = "evaluate" /\ LexiconOnly(rules[1])) =>
        /\ ~ret.raised
        /\ ret.truth = (~node.isnone
                        /\ LexiconRuleSet_compare(LexiconRuleSet(rules[1].lexicon), node).truth)

\* loading the lexicon-only rule raised TypeError
C29_TypeErrorRaised ==
    /\ pc = "evaluate"
    /\ rules = <<rd_lex_only>>
    /\ ret = Raised("TypeError")

\* C30: constructing a ParadigmRuleSet leaves the rule definition unchanged,
\* and a layout that names a base paradigm and adds no condition is true on
\* the same (node, analyses) as the base paradigm.
C30_LayoutEqualsBase ==
    [][LoadLayoutOfBase =>
          /\ rules' = rules
          /\ ~ret'.raised => (ret'.val.layout.truth = ret'.val.base.truth)]_vars

\* the base paradigm asks for the whole tag 'bi+V' and is false on the
\* analysis 'bi+V+IV'; its layout, loaded after it, is true
C30_LayoutMatchesMore ==
    /\ pc = "layout"
    /\ rules[1].name = "verb-exact"
    /\ analyses = <<lemma_V>>
    /\ ~ret.val.base.truth
    /\ ret.val.layout.truth


(***************************************************************************)
(* Morphology.lookups_to_lemma on one block, statement by statement        *)
(*                                                                         *)
(* analyses_in is the block's list, which the filters and the two          *)
(* reorderings change in place; analyses is the local name, rebound by     *)
(* rearrange_on_count, split_on_compounds and make_analyses_der_fin.       *)
(***************************************************************************)

\* the statements of the loop body, in the order of the source
StepOrder ==
    <<"remove_compound_analyses", "remove_derivations", "place_exact_lemmas_first",
      "place_longest_lemmas_first", "rearrange_on_count", "split_on_compounds",
      "make_analyses_der_fin", "analysis_to_lemma">>

\* the condition under which the loop body executes a statement
StepTaken(step, kw, n_exact) ==
    CASE step = "remove_compound_analyses" -> kw.non_compound_only
      [] step = "remove_derivations" -> kw.no_derivations
      [] step = "place_longest_lemmas_first" -> n_exact = 0
      [] step = "split_on_compounds" -> kw.split_compounds
      [] OTHER -> TRUE

\* the first statement of order after position at that the loop body executes
FirstTaken(order, at, kw, n_exact) ==
    LET later == {i \in (at + 1)..Len(order) : StepTaken(order[i], kw, n_exact)}
    IN  IF later = {} THEN "done" ELSE order[FirstWhere(later)]

\* a plausible slip: the pieces are cut at the break tags before the
\* compounds are split
StepAfter_der_fin_first(at, kw, n_exact) ==
    LET order == [StepOrder EXCEPT ![6] = "make_analyses_der_fin",
                                   ![7] = "split_on_compounds"]
    IN  IF at = "start" THEN FirstTaken(order, 0, kw, n_exact)
        ELSE IF \E i \in 1..Len(order) : order[i] = at
        THEN FirstTaken(order, CHOOSE i \in 1..Len(order) : order[i] = at, kw, n_exact)
        ELSE "done"

\* the statement lookups_to_lemma executes after the statement at; none
\* after the last one or after a raise
StepAfter(at, kw, n_exact) ==
    IF at = "start" THEN FirstTaken(StepOrder, 0, kw, n_exact)
    ELSE IF \E i \in 1..Len(StepOrder) : StepOrder[i] = at
    THEN FirstTaken(StepOrder, CHOOSE i \in 1..Len(StepOrder) : StepOrder[i] = at, kw, n_exact)
    ELSE "done"

\* n_exact, the number of analyses whose lemma is the form
NExact == place_exact_lemmas_first(form, analyses_in).n

s_CmpSlash == Plus \o sCmp \o <<"/">>
a_Bare == s_ba
a_DerEnd == s_bi \o Plus \o s_V \o Plus \o s_DerSlash \o s_Nom
a_CmpDer == s_ba \o Plus \o s_N \o s_CmpBoundary \o a_Der
a_Long == s_ba \o <<"b">> \o Plus \o s_N

\* compoundBoundary configured as a list of alternatives
opt_list == [opt_sme EXCEPT !.compoundBoundary = ListVal(<<s_CmpSlash, s_CmpBoundary>>)]
StepOptions == {EmptyDict, opt_sme, opt_list}

StepBlocks ==
    {<<>>, <<a_N>>, <<a_Bare>>, <<a_DerEnd>>, <<a_Cmp>>, <<a_CmpDer>>,
     <<a_N, a_Cmp>>, <<a_Der, a_Cmp>>, <<a_N, a_Der, a_Cmp>>, <<a_Long, a_N, a_CmpDer>>,
     <<a_ActioGen, a_ActioNom>>}

InitSteps ==
    /\ pc = "start"
    /\ form \in Forms
    /\ analyses_in \in StepBlocks
    /\ analyses = analyses_in
    /\ options \in StepOptions
    /\ flags \in [split_compounds : BOOLEAN, non_compound_only : BOOLEAN,
                  no_derivations : BOOLEAN]
    /\ tagsets = ts_plain
    /\ ret = Lemmas(<<>>, 0)
    /\ lookups = <<>>
    /\ tag = <<>>
    /\ rules = <<>>
    /\ node = PyNone
    /\ proc = <<>>
    /\ clock = 0
    /\ NoService

\* what a step leaves: the statement it executed, or the exception
StepRaises(e) ==
    /\ pc' = "raised"
    /\ ret' = Failed(e, 0)
    /\ UNCHANGED <<analyses_in, analyses>>

\* a statement that changes the block's list in place
InPlace(step, lst) ==
    /\ pc' = step
    /\ analyses_in' = lst
    /\ analyses' = lst
    /\ ret' = ret

\* a statement that rebinds the local name
Rebound(step, lst) ==
    /\ pc' = step
    /\ analyses' = lst
    /\ UNCHANGED <<analyses_in, ret>>

RemoveCompoundAnalysesStep ==
    /\ StepAfter(pc, flags, NExact) = "remove_compound_analyses"
    /\ LET kept == remove_compound_analyses(analyses_in, options)
       IN  IF kept.raised THEN StepRaises(kept.exc)
           ELSE InPlace("remove_compound_analyses", kept.val)
    /\ UNCHANGED <<form, lookups, tagsets, options, flags, tag,
                   paradigmVars, serviceVars, execVars>>

RemoveDerivationsStep ==
    /\ StepAfter(pc, flags, NExact) = "remove_derivations"
    /\ InPlace("remove_derivations", remove_derivations(analyses_in, options))
    /\ UNCHANGED <<form, lookups, tagsets, options, flags, tag,
                   paradigmVars, serviceVars, execVars>>

PlaceExactLemmasFirstStep ==
    /\ StepAfter(pc, flags, NExact) = "place_exact_lemmas_first"
    /\ InPlace("place_exact_lemmas_first", place_exact_lemmas_first(form, analyses_in).lst)
    /\ UNCHANGED <<form, lookups, tagsets, options, flags, tag,
                   paradigmVars, serviceVars, execVars>>

\* max() of an empty sequence raises ValueError
PlaceLongestLemmasFirstStep ==
    /\ StepAfter(pc, flags, NExact) = "place_longest_lemmas_first"
    /\ IF Len(analyses_in) = 0 THEN StepRaises("ValueError")
       ELSE \E arr \in place_longest_lemmas_first(analyses_in) :
               InPlace("place_longest_lemmas_first", arr)
    /\ UNCHANGED <<form, lookups, tagsets, options, flags, tag,
                   paradigmVars, serviceVars, execVars>>

RearrangeOnCountStep ==
    /\ StepAfter(pc, flags, NExact) = "rearrange_on_count"
    /\ LET counted == rearrange_on_count(analyses)
       IN  IF counted.raised THEN StepRaises(counted.exc)
           ELSE Rebound("rearrange_on_count", counted.val)
    /\ UNCHANGED <<form, lookups, tagsets, options, flags, tag,
                   paradigmVars, serviceVars, execVars>>

SplitOnCompoundsStep ==
    /\ StepAfter(pc, flags, NExact) = "split_on_compounds"
    /\ LET split == split_on_compounds(analyses, options)
       IN  IF split.raised THEN StepRaises(split.exc)
           ELSE Rebound("split_on_compounds", split.val)
    /\ UNCHANGED <<form, lookups, tagsets, options, flags, tag,
                   paradigmVars, serviceVars, execVars>>

\* analyses_der_fin
MakeAnalysesDerFinStep ==
    /\ StepAfter(pc, flags, NExact) = "make_analyses_der_fin"
    /\ Rebound("make_analyses_der_fin", make_analyses_der_fin(analyses, options))
    /\ UNCHANGED <<form, lookups, tagsets, options, flags, tag,
                   paradigmVars, serviceVars, execVars>>

\* the loop that yields one Lemma for each analysis of analyses_der_fin
AnalysesToLemmasStep ==
    /\ StepAfter(pc, flags, NExact) = "analysis_to_lemma"
    /\ ret' = BuildLemmas(analyses, form, options, tagsets)
    /\ pc' = "analysis_to_lemma"
    /\ UNCHANGED <<form, analyses_in, analyses, lookups, tagsets, options, flags, tag,
                   paradigmVars, serviceVars, execVars>>

NextSteps ==
    \/ RemoveCompoundAnalysesStep
    \/ RemoveDerivationsStep
    \/ PlaceExactLemmasFirstStep
    \/ PlaceLongestLemmasFirstStep
    \/ RearrangeOnCountStep
    \/ SplitOnCompoundsStep
    \/ MakeAnalysesDerFinStep
    \/ AnalysesToLemmasStep

SpecSteps == InitSteps /\ [][NextSteps]_vars

\* what rearrange_on_count returned for the block's list
Counted == rearrange_on_count(analyses_in).val

\* the order of C23's statement: the pieces of make_analyses_der_fin are
\* split on the compound boundary afterwards
DerFinThenSplit(lst, kw, opts) ==
    IF kw.split_compounds THEN split_on_compounds(make_analyses_der_fin(lst, opts), opts)
    ELSE Returned(make_analyses_der_fin(lst, opts))

\* C23 as stated: after rearrange_on_count (step 6) the analyses are cut at
\* the break tags (step 7) and the pieces are then, when split_compounds is
\* set, split on the compound boundary (step 8); the Lemmas are constructed
\* from the result.
C23_DerFinBeforeCompounds ==
    [][/\ pc' = "make_analyses_der_fin" => pc \in {"rearrange_on_count", pc'}
       /\ pc' = "split_on_compounds" => pc \in {"make_analyses_der_fin", pc'}
       /\ (pc' = "analysis_to_lemma" /\ pc # pc') =>
             analyses = DerFinThenSplit(Counted, flags, options).val]_vars

\* C23, as the code orders the steps: rearrange_on_count (step 6) comes
\* first; when split_compounds is set its result is split on the compound
\* boundary (step 8), and only then are the analyses cut at the break tags
\* (step 7), from whose pieces the Lemmas are constructed.
C23_CompoundsBeforeDerFin ==
    [][/\ (pc' = "split_on_compounds" /\ pc # pc') =>
             /\ pc = "rearrange_on_count"
             /\ flags.split_compounds
             /\ analyses = Counted
             /\ analyses' = split_on_compounds(Counted, options).val
       /\ (pc' = "make_analyses_der_fin" /\ pc # pc') =>
             /\ pc = IF flags.split_compounds THEN "split_on_compounds"
                     ELSE "rearrange_on_count"
             /\ analyses' = make_analyses_der_fin(analyses, options)
       /\ (pc' = "analysis_to_lemma" /\ pc # pc') =>
             /\ pc = "make_analyses_der_fin"
             /\ analyses = make_analyses_der_fin(
                              IF flags.split_compounds
                              THEN split_on_compounds(Counted, options).val
                              ELSE Counted, options)]_vars

\* a compound whose last member is a derivation: split first and cut
\* afterwards, the pieces carry the circled d and l, which the other order
\* does not produce
C23_OrderMatters ==
    /\ pc = "analysis_to_lemma"
    /\ flags.split_compounds
    /\ analyses_in = <<a_CmpDer>>
    /\ options = opt_sme
    /\ analyses = make_analyses_der_fin(split_on_compounds(Counted, options).val, options)
    /\ analyses # DerFinThenSplit(Counted, flags, options).val
    /\ \E i \in 1..Len(analyses) : Contains(analyses[i], Circled_d)

\* analysis a holds the configured compound boundary, a str or one of a list
HasCompoundBoundary(a, opts) ==
    /\ "compoundBoundary" \in DOMAIN opts
    /\ Truthy(opts.compoundBoundary)
    /\ IF IsList(opts.compoundBoundary)
       THEN \E i \in 1..Len(opts.compoundBoundary.list) :
               Contains(a, opts.compoundBoundary.list[i])
       ELSE Contains(a, opts.compoundBoundary.str)

HasDerivationMarker(a, opts) ==
    /\ "derivationMarker" \in DOMAIN opts
    /\ Len(opts.derivationMarker) > 0
    /\ Contains(a, opts.derivationMarker)

\* C24: remove_compound_analyses leaves, in their order, exactly the
\* analyses without the configured compound boundary, configured as a str or
\* as a list of alternatives, and remove_derivations exactly those without
\* the derivation marker.
C24_Filters ==
    [][/\ RemoveCompoundAnalysesStep =>
             /\ pc' = "remove_compound_analyses"
             /\ analyses_in' = SelectSeq(analyses_in,
                                         LAMBDA a : ~HasCompoundBoundary(a, options))
       /\ RemoveDerivationsStep =>
             /\ pc' = "remove_derivations"
             /\ analyses_in' = SelectSeq(analyses_in,
                                         LAMBDA a : ~HasDerivationMarker(a, options))]_vars

\* with the boundary configured as a list, the filter has raised TypeError
\* on a block with a compound analysis
C24_ListBoundaryRaises ==
    /\ pc = "raised"
    /\ flags.non_compound_only
    /\ options = opt_list
    /\ analyses_in = <<a_N, a_Cmp>>
    /\ ret = Failed("TypeError", 0)

\* the analysis is one part that holds the action-noun marker
SingleActioPart(a, opts) ==
    /\ Len(splitAnalysis(a, opts, FALSE)) = 1
    /\ Contains(a, ActioTag(opts))

\* C25: the Lemma constructed from a tag string that is not a single part
\* holding the action-noun marker has the surface form passed to lemmatize
\* as its input and form.
C25_InputIsSurfaceForm ==
    (pc = "analysis_to_lemma" /\ ~ret.raised) =>
        \A i \in 1..Len(ret.val) :
            ~SingleActioPart(analyses[i], options) =>
                /\ ret.val[i].input = StrVal(form)
                /\ ret.val[i].form = StrVal(form)

\* the Lemma of the one-part analysis 'ba' has the empty str as its input
C25_SinglePartEmptyInput ==
    /\ pc = "analysis_to_lemma"
    /\ form = s_ba
    /\ analyses = <<a_Bare>>
    /\ ~ret.raised
    /\ ret.val[1].input = StrVal(<<>>)


(***************************************************************************)
(* GenerationOverrides: the hooks that run before the generation           *)
(*                                                                         *)
(* registry holds the two fields of generation_overrides that the wrappers *)
(* of Morphology.generate read: registry (the tag filters of a language)   *)
(* and pregenerators (its selector).  What a hook does with its arguments  *)
(* is its author's business; the positional arguments are the sequence of  *)
(* the hooks they have passed through, so that the arguments a hook        *)
(* returns differ from those of every other history.                       *)
(***************************************************************************)
MaxHooks == 4

TagFilters == {"f", "g"}
Selectors == {"p", "q"}

\* self.pregenerators[language_iso] = pregenerated_selector_function
RECURSIVE pregenerated_form_selector(_, _, _)
pregenerated_form_selector(pre, language_isos, f) ==
    IF Len(language_isos) = 0 THEN pre
    ELSE pregenerated_form_selector(
            [l \in DOMAIN pre \cup {Head(language_isos)} |->
                IF l = Head(language_isos) THEN f ELSE pre[l]],
            Tail(language_isos), f)

\* tag_filter_for_iso(*language_isos)(restrictor_function)
RECURSIVE tag_filter_for_iso(_, _, _)
tag_filter_for_iso(reg, language_isos, f) ==
    IF Len(language_isos) = 0 THEN reg
    ELSE tag_filter_for_iso(Appended(reg, Head(language_isos), f), Tail(language_isos), f)

\* one call f(*args, **kwargs), and the positional arguments it returns
Called(f, args) == [f |-> f, args |-> args]
ArgsReturned(call) == Append(call.args, call.f)

\* the calls made so far, and the arguments the next callee receives
Trace(calls, args) == [calls |-> calls, args |-> args]
ThenCall(trace, f) ==
    Trace(Append(trace.calls, Called(f, trace.args)), ArgsReturned(Called(f, trace.args)))

\* Morphology.generate itself
GenerateCalled(trace) == Append(trace.calls, Called("generate", trace.args))

\* GenerationOverrides.apply_pregenerated_forms, decorate, up to the call of
\* the wrapped function
apply_pregenerated_forms(overrides, lang_code, trace) ==
    IF lang_code \in DOMAIN overrides.pregenerators
    THEN ThenCall(trace, overrides.pregenerators[lang_code])
    ELSE trace

\* GenerationOverrides.restrict_tagsets, decorate, up to the call of the
\* wrapped function
restrict_tagsets(overrides, lang_code, trace) ==
    LET chain == Chain(overrides.registry, lang_code)
        F[i \in 0..Len(chain)] == IF i = 0 THEN trace ELSE ThenCall(F[i - 1], chain[i])
    IN  F[Len(chain)]

\* a plausible slip: the selector is the outer wrapper and runs before the
\* tag filters
wrapped_generate_selector_first(overrides, lang_code) ==
    GenerateCalled(
        restrict_tagsets(overrides, lang_code,
            apply_pregenerated_forms(overrides, lang_code, Trace(<<>>, <<>>))))

\* the generate of Morphology(languagecode) as __init__ wraps it, without
\* the processors that run after it: restrict_tagsets around
\* apply_pregenerated_forms around generate
wrapped_generate(overrides, lang_code) ==
    GenerateCalled(
        apply_pregenerated_forms(overrides, lang_code,
            restrict_tagsets(overrides, lang_code, Trace(<<>>, <<>>))))

\* the number of hooks in the registry
HooksRegistered(overrides) ==
    LET ls == <<"sme", "sma">>
        N[i \in 0..2] ==
            IF i = 0 THEN 0
            ELSE N[i - 1] + Len(Chain(overrides.registry, ls[i]))
                          + (IF ls[i] \in DOMAIN overrides.pregenerators THEN 1 ELSE 0)
    IN  N[2]

InitHooks ==
    /\ pc = "start"
    /\ registry = [registry |-> <<>>, pregenerators |-> <<>>]
    /\ ret = Returned([language |-> "", calls |-> <<>>])
    /\ form = <<>>
    /\ analyses_in = <<>>
    /\ analyses = <<>>
    /\ lookups = <<>>
    /\ tagsets = <<>>
    /\ options = <<>>
    /\ flags = <<>>
    /\ tag = <<>>
    /\ rules = <<>>
    /\ node = PyNone
    /\ proc = <<>>
    /\ clock = 0
    /\ files = <<>>
    /\ tables = <<>>
    /\ threads = <<>>

\* a configuration module is imported: @tag_filter_for_iso(*isos) decorates
\* a function
RegisterTagFilter ==
    /\ \E isos \in SeqsOf(Languages, 1, 2) : \E f \in TagFilters :
          /\ registry' = [registry EXCEPT
                             !.registry = tag_filter_for_iso(registry.registry, isos, f)]
          /\ HooksRegistered(registry') <= MaxHooks
    /\ UNCHANGED <<pc, form, analyses_in, analyses, lookups, tagsets, options, flags, tag,
                   paradigmVars, ret, execVars, files, tables, threads>>

\* @pregenerated_form_selector(*isos) decorates a function
RegisterSelector ==
    /\ \E isos \in SeqsOf(Languages, 1, 2) : \E f \in Selectors :
          /\ registry' = [registry EXCEPT
                             !.pregenerators =
                                 pregenerated_form_selector(registry.pregenerators, isos, f)]
          /\ HooksRegistered(registry') <= MaxHooks
    /\ UNCHANGED <<pc, form, analyses_in, analyses, lookups, tagsets, options, flags, tag,
                   paradigmVars, ret, execVars, files, tables, threads>>

\* one call of the generate of a language's Morphology
GenerateHooked ==
    /\ \E lang \in Languages :
          /\ ret' = Returned([language |-> lang, calls |-> wrapped_generate(registry, lang)])
          /\ registry' = [registry EXCEPT !.registry = Touched(registry.registry, lang)]
    /\ pc' = "generate"
    /\ UNCHANGED <<form, analyses_in, analyses, lookups, tagsets, options, flags, tag,
                   paradigmVars, execVars, files, tables, threads>>

NextHooks == RegisterTagFilter \/ RegisterSelector \/ GenerateHooked

SpecHooks == InitHooks /\ [][NextHooks]_vars

\* C26: in one generate call for language L the tag filters registered for L
\* run in registration order, the first on the caller's arguments and each
\* next one on what the previous one returned; then the selector of L runs,
\* the one registered last, if there is one; the generation runs last, on
\* what the last hook returned; no other hook is called.  A registration of
\* a selector replaces the selector of each language it names.
C26_HookOrder ==
    [][/\ RegisterSelector =>
             \E f \in Selectors :
                 \A l \in DOMAIN registry'.pregenerators :
                     \/ registry'.pregenerators[l] = f
                     \/ /\ l \in DOMAIN registry.pregenerators
                        /\ registry'.pregenerators[l] = registry.pregenerators[l]
       /\ GenerateHooked =>
          LET lang == ret'.val.language
              calls == ret'.val.calls
              own == Chain(registry.registry, lang)
              selector == IF lang \in DOMAIN registry.pregenerators
                          THEN <<registry.pregenerators[lang]>> ELSE <<>>
              hooks == own \o selector
          IN  /\ Len(calls) = Len(hooks) + 1
              /\ \A k \in 1..Len(hooks) : calls[k].f = hooks[k]
              /\ calls[Len(calls)].f = "generate"
              /\ calls[1].args = <<>>
              /\ \A k \in 2..Len(calls) : calls[k].args = ArgsReturned(calls[k - 1])]_vars

\* a generate call for sme with the filters f, g and the selector p, while
\* sma has the selector q
C26_Witness ==
    /\ pc = "generate"
    /\ ret.val.language = "sme"
    /\ Chain(registry.registry, "sme") = <<"f", "g">>
    /\ registry.pregenerators = [sme |-> "p", sma |-> "q"]
    /\ ret.val.calls = <<Called("f", <<>>), Called("g", <<"f">>), Called("p", <<"f", "g">>),
                         Called("generate", <<"f", "g", "p">>)>>


(***************************************************************************)
(* The analyzer backends: XFST and HFST over a pipe, PyHFST in process     *)
(*                                                                         *)
(* An analyzer answer gives, for each input line, the results of the       *)
(* transducer: pairs of an output string and a weight.  The lookup tools   *)
(* print one line 'input TAB output TAB weight' for each result and an     *)
(* empty line after the results of an input; PyHFST gets the pairs from    *)
(* the library.  Every input has at least one result here.                 *)
(***************************************************************************)
MaxResults == 2

Tab == <<"\t">>
Newline == <<"\n">>
BlankLine == Newline \o Newline

\* a.strip() is not empty
StripsToText(a) == \E i \in 1..Len(a) : a[i] \notin {" ", "\t", "\n"}

\* PyHFST.remove_flag_diacritics: re.sub("@[^@]*@", "", line)
RECURSIVE remove_flag_diacritics(_)
remove_flag_diacritics(line) ==
    LET i == Find(line, <<"@">>)
        j == IF i < 0 THEN -1 ELSE Find(SliceFrom(line, i + 1), <<"@">>)
    IN  IF i < 0 \/ j < 0 THEN line
        ELSE Slice(line, 0, i) \o remove_flag_diacritics(SliceFrom(line, i + j + 2))

\* XFST.tag_processor, the default one: fewer than two fields cannot be
\* unpacked
tag_processor(analysis_line) ==
    LET fields == Split(analysis_line, Tab)
    IN  IF Len(fields) < 2 THEN Raised("ValueError")
        ELSE Returned([wordform |-> fields[1],
                       lemma_tags |-> IF Contains(analysis_line, sQuestion)
                                      THEN fields[2] \o Tab \o Plus \o sQuestion
                                      ELSE fields[2],
                       weight |-> SubSeq(fields, 3, Len(fields))])

\* the body of the loop of XFST.clean for one chunk.  list(set(lemmas))[0]
\* is the wordform of the lines, all lines of a chunk echoing one input
clean_text_chunk(chunk) ==
    LET parts == Split(chunk, Newline)
        processed == [i \in 1..Len(parts) |-> tag_processor(parts[i])]
        W[i \in 0..Len(parts)] ==
            IF i = 0 THEN <<>>
            ELSE IF Len(processed[i].val.weight) > 0
            THEN Append(W[i - 1], processed[i].val.weight)
            ELSE W[i - 1]
    IN  IF \E i \in 1..Len(parts) : processed[i].raised THEN Raised("ValueError")
        ELSE Returned([surface |-> processed[1].val.wordform,
                       analyses |-> [i \in 1..Len(parts) |-> processed[i].val.lemma_tags],
                       weights |-> W[Len(parts)]])

\* XFST.clean(_output), on the text of the output
clean_text(output) ==
    LET analysis_chunks == SelectSeq(Split(output, BlankLine), StripsToText)
        cleaned == [i \in 1..Len(analysis_chunks) |-> clean_text_chunk(analysis_chunks[i])]
    IN  IF \E i \in 1..Len(cleaned) : cleaned[i].raised THEN Raised("ValueError")
        ELSE Returned([i \in 1..Len(cleaned) |-> cleaned[i].val])

Result(output, weight) == [output |-> output, weight |-> weight]

\* what the lookup tool prints for the results of one input line
ToolLines(input, results) ==
    LET F[i \in 0..Len(results)] ==
            IF i = 0 THEN <<>>
            ELSE F[i - 1] \o input \o Tab \o results[i].output \o Tab \o results[i].weight
                          \o Newline
    IN  F[Len(results)] \o Newline

\* the stdout of the lookup tool for the input lines
ToolOutput(inputs, answers) ==
    LET F[i \in 0..Len(inputs)] ==
            IF i = 0 THEN <<>> ELSE F[i - 1] \o ToolLines(inputs[i], answers[i])
    IN  F[Len(inputs)]

\* XFST.lookup(lookups_list): the parsed blocks
XFST_lookup(lookups_list, answers) == clean_text(ToolOutput(lookups_list, answers))

\* XFST.inverselookup_by_string(lookup_string), icmd configured
XFST_inverselookup_by_string(lookup_string, answers) ==
    clean_text(ToolOutput(Split(lookup_string, Newline), answers))

\* PyHFST.lookup(lookups_list), output the results of tr.lookup(lookup_string)
PyHFST_lookup(lookups_list, output) ==
    LET lookup_string == Join(Newline, lookups_list)
        lines[i \in 0..Len(output)] ==
            IF i = 0 THEN <<>>
            ELSE lines[i - 1] \o lookup_string \o Tab
                              \o remove_flag_diacritics(output[i].output) \o Newline
    IN  clean_text(lines[Len(output)] \o BlankLine)

\* the variant that writes the results of an input line as one paragraph,
\* as the lookup tools print them
PyHFST_inverselookup_by_string_per_line(lookup_string, answers) ==
    LET inputs == Split(lookup_string, Newline)
        of_line(k) ==
            LET F[i \in 0..Len(answers[k])] ==
                    IF i = 0 THEN <<>>
                    ELSE F[i - 1] \o inputs[k] \o Tab
                                  \o remove_flag_diacritics(answers[k][i].output) \o Newline
            IN  F[Len(answers[k])] \o Newline
        lines[k \in 0..Len(inputs)] == IF k = 0 THEN <<>> ELSE lines[k - 1] \o of_line(k)
    IN  clean_text(lines[Len(inputs)])

\* PyHFST.inverselookup_by_string(lookup_string), itr configured: every
\* result is written with an empty line after it
PyHFST_inverselookup_by_string(lookup_string, answers) ==
    LET inputs == Split(lookup_string, Newline)
        of_line(k) ==
            LET F[i \in 0..Len(answers[k])] ==
                    IF i = 0 THEN <<>>
                    ELSE F[i - 1] \o inputs[k] \o Tab
                                  \o remove_flag_diacritics(answers[k][i].output) \o BlankLine
            IN  F[Len(answers[k])]
        lines[k \in 0..Len(inputs)] == IF k = 0 THEN <<>> ELSE lines[k - 1] \o of_line(k)
    IN  clean_text(lines[Len(inputs)])

o_x == <<"x">>
o_flag == <<"@", "U", "@", "y">>
o_unknown == <<"z", "+", "?">>
ResultVocab == {Result(o_x, <<"1">>), Result(o_flag, <<"2">>), Result(o_unknown, <<"3">>)}
ResultLists == SeqsOf(ResultVocab, 1, MaxResults)

t_1 == s_ba \o Plus \o s_N
t_2 == s_bi \o Plus \o s_V

\* a forward lookup of one form, or an inverse lookup of one or two tag strings
BackendRequests ==
    {[call |-> "lookup", inputs |-> <<s_ba>>],
     [call |-> "inverselookup", inputs |-> <<t_1>>],
     [call |-> "inverselookup", inputs |-> <<t_1, t_2>>]}

InitBackend ==
    /\ pc = "start"
    /\ flags \in BackendRequests
    /\ lookups \in [1..Len(flags.inputs) -> ResultLists]
    /\ ret = Returned(<<>>)
    /\ form = <<>>
    /\ analyses_in = <<>>
    /\ analyses = <<>>
    /\ tagsets = <<>>
    /\ options = <<>>
    /\ tag = <<>>
    /\ rules = <<>>
    /\ node = PyNone
    /\ proc = <<>>
    /\ clock = 0
    /\ NoService

XFSTLookup ==
    /\ pc = "start" /\ flags.call = "lookup"
    /\ ret' = XFST_lookup(flags.inputs, lookups)
    /\ pc' = "XFST.lookup"
    /\ UNCHANGED <<form, analyses_in, analyses, lookups, tagsets, options, flags, tag,
                   paradigmVars, serviceVars, execVars>>

XFSTInverseLookup ==
    /\ pc = "start" /\ flags.call = "inverselookup"
    /\ ret' = XFST_inverselookup_by_string(Join(Newline, flags.inputs), lookups)
    /\ pc' = "XFST.inverselookup_by_string"
    /\ UNCHANGED <<form, analyses_in, analyses, lookups, tagsets, options, flags, tag,
                   paradigmVars, serviceVars, execVars>>

PyHFSTLookup ==
    /\ pc = "start" /\ flags.call = "lookup"
    /\ ret' = PyHFST_lookup(flags.inputs, lookups[1])
    /\ pc' = "PyHFST.lookup"
    /\ UNCHANGED <<form, analyses_in, analyses, lookups, tagsets, options, flags, tag,
                   paradigmVars, serviceVars, execVars>>

PyHFSTInverseLookup ==
    /\ pc = "start" /\ flags.call = "inverselookup"
    /\ ret' = PyHFST_inverselookup_by_string(Join(Newline, flags.inputs), lookups)
    /\ pc' = "PyHFST.inverselookup_by_string"
    /\ UNCHANGED <<form, analyses_in, analyses, lookups, tagsets, options, flags, tag,
                   paradigmVars, serviceVars, execVars>>

NextBackend == XFSTLookup \/ XFSTInverseLookup \/ PyHFSTLookup \/ PyHFSTInverseLookup

SpecBackend == InitBackend /\ [][NextBackend]_vars

\* the first component and the tag/form strings of the blocks, with the
\* flag diacritics removed
Stripped(blocks) ==
    [i \in 1..Len(blocks) |->
        [surface |-> blocks[i].surface,
         analyses |-> [j \in 1..Len(blocks[i].analyses) |->
                          remove_flag_diacritics(blocks[i].analyses[j])]]]

\* what the pipe-backed backend returns for the request and the answers
PipeBlocks ==
    IF flags.call = "lookup" THEN XFST_lookup(flags.inputs, lookups)
    ELSE XFST_inverselookup_by_string(Join(Newline, flags.inputs), lookups)

\* C21: for the same request and the same analyzer answers PyHFST returns
\* the blocks of the pipe-backed backends: as many blocks, and in each block
\* the same first component and the same strings in the same order, flag
\* diacritics removed.
C21_BackendEquivalence ==
    pc \in {"PyHFST.lookup", "PyHFST.inverselookup_by_string"} =>
        /\ ~ret.raised
        /\ ~PipeBlocks.raised
        /\ Len(ret.val) = Len(PipeBlocks.val)
        /\ Stripped(ret.val) = Stripped(PipeBlocks.val)

\* an inverse lookup of one tag string with two generated forms: PyHFST
\* returns two blocks of one form, the pipe-backed backends one block of two
C21_OneBlockPerForm ==
    /\ pc = "PyHFST.inverselookup_by_string"
    /\ flags.inputs = <<t_1>>
    /\ Len(lookups[1]) = 2
    /\ Len(PipeBlocks.val) = 1
    /\ Len(PipeBlocks.val[1].analyses) = 2
    /\ Len(ret.val) = 2
    /\ \A i \in 1..2 : ret.val[i].surface = t_1 /\ Len(ret.val[i].analyses) = 1
====
